---- MODULE Spec2Model ----
(***************************************************************************)
(* A model of the NodeTunnel relay server.                                 *)
(*                                                                         *)
(*   - the tenancy directory (relay/apps.rs, relay/clients.rs,             *)
(*     relay/rooms.rs), the packet handlers (relay/handlers/*.rs), the     *)
(*     dispatch and event loop (relay/server.rs) and the session manager   *)
(*     and UDP interface (udp/sessions.rs, udp/paper_interface.rs):        *)
(*     specification Spec, and specification SpecLocal for a relay that    *)
(*     admits by its local whitelist only;                                 *)
(*   - the reliability engine (transport/reliability.rs) between one       *)
(*     ReliableSender and one ReliableReceiver (transport/client.rs,       *)
(*     transport/server.rs): specifications SpecRel and SpecRelFair.       *)
(***************************************************************************)
EXTENDS Integers, Sequences, FiniteSets, TLC

(***************************************************************************)
(* Bounds of the model.                                                    *)
(***************************************************************************)
\* ClientIds the session manager may mint (next_client_id is capped).
MaxClientId == 2
\* RoomIds one App may mint (Rooms.next_id is capped).
MaxRoomId == 2
\* peer IDs one Room may hand out (next_godot_id is capped).
MaxPeerId == 2
\* PacketReceived events that may wait in PaperInterface.pending_events.
MaxPending == 1

Addrs == {"a1", "a2"}
Tokens == {"t1", "t2"}
Versions == {"v1", "v2"}
JoinCodes == {"J1", "J2"}
Metadatas == {"m1", "m2"}

ClientIds == 1..MaxClientId

(***************************************************************************)
(* HashMap helpers.                                                        *)
(***************************************************************************)
EmptyMap == [x \in {} |-> 0]

MapInsert(m, k, v) == [x \in (DOMAIN m) \cup {k} |-> IF x = k THEN v ELSE m[x]]

MapRemove(m, k) == [x \in (DOMAIN m) \ {k} |-> m[x]]

MapValues(m) == {m[x] : x \in DOMAIN m}

\* u64::to_string for the small identifiers of the model.
DecimalDigits == <<"0", "1", "2", "3", "4", "5", "6", "7", "8", "9">>

U64ToString(n) == IF n < 10 THEN DecimalDigits[n + 1] ELSE "big"

(***************************************************************************)
(* protocol/packet.rs: the packets, by opcode.                             *)
(***************************************************************************)
Authenticate(t, v) == [op |-> "Authenticate", app_id |-> t, version |-> v]

ClientAuthenticated == [op |-> "ClientAuthenticated"]

CreateRoom(p, m) == [op |-> "CreateRoom", is_public |-> p, metadata |-> m]

ReqRooms == [op |-> "ReqRooms"]

GetRooms(rs) == [op |-> "GetRooms", rooms |-> rs]

UpdateRoom(r, m) == [op |-> "UpdateRoom", room_id |-> r, metadata |-> m]

ReqJoin(r, m) == [op |-> "ReqJoin", room_id |-> r, metadata |-> m]

JoinRes(t, r, a) == [op |-> "JoinRes", target_id |-> t, room_id |-> r, allowed |-> a]

ConnectedToRoom(r, p) == [op |-> "ConnectedToRoom", room_id |-> r, peer_id |-> p]

PeerJoinAttempt(t, m) == [op |-> "PeerJoinAttempt", target_id |-> t, metadata |-> m]

PeerJoinedRoom(p) == [op |-> "PeerJoinedRoom", peer_id |-> p]

PeerLeftRoom(p) == [op |-> "PeerLeftRoom", peer_id |-> p]

GameData(p, d) == [op |-> "GameData", from_peer |-> p, data |-> d]

ForceDisconnect == [op |-> "ForceDisconnect"]

Error(c, m) == [op |-> "Error", error_code |-> c, error_message |-> m]

(***************************************************************************)
(* protocol/serialize.rs and PacketType::to_bytes / from_bytes.  A byte is *)
(* a number in 0..255, a buffer a sequence of bytes, a String the sequence  *)
(* of its UTF-8 bytes.  A read returns [ok, value, rest].                   *)
(***************************************************************************)
\* the opcode constants of protocol/ids.rs: one byte each, all different
Opcode(op) ==
    LET ids == <<"Authenticate", "ClientAuthenticated", "CreateRoom", "ReqJoin",
                 "ConnectedToRoom", "PeerJoinAttempt", "PeerJoinedRoom", "PeerLeftRoom",
                 "GameData", "ForceDisconnect", "Error", "ReqRooms", "GetRooms",
                 "UpdateRoom", "JoinRes">>
    IN  (CHOOSE i \in DOMAIN ids : ids[i] = op) - 1

ReadErr == [ok |-> FALSE]

ReadOk(value, rest) == [ok |-> TRUE, value |-> value, rest |-> rest]

\* &bytes[n..]
DropBytes(bytes, n) == SubSeq(bytes, n + 1, Len(bytes))

\* i32::to_be_bytes: two's complement, most significant byte first
push_i32(value) ==
    <<(value \div 16777216) % 256, (value \div 65536) % 256, (value \div 256) % 256,
      value % 256>>

\* i32::from_be_bytes
I32FromBeBytes(b) ==
    (IF b[1] >= 128 THEN b[1] - 256 ELSE b[1]) * 16777216 + b[2] * 65536 + b[3] * 256 + b[4]

read_i32_le(bytes) ==
    IF Len(bytes) < 4
    THEN ReadErr
    ELSE ReadOk(I32FromBeBytes(<<bytes[4], bytes[3], bytes[2], bytes[1]>>), DropBytes(bytes, 4))

read_i32(bytes) ==
    IF Len(bytes) < 4
    THEN ReadErr
    ELSE ReadOk(I32FromBeBytes(SubSeq(bytes, 1, 4)), DropBytes(bytes, 4))

push_bool(value) == push_i32(IF value THEN 1 ELSE 0)

read_bool(bytes) ==
    LET r == read_i32(bytes)
    IN  IF r.ok THEN ReadOk(r.value # 0, r.rest) ELSE ReadErr

\* u64::to_be_bytes, for the values below 2^31 that the model draws
push_u64(value) == <<0, 0, 0, 0>> \o push_i32(value)

\* u64::from_be_bytes; a value of 2^31 or more is kept as its eight bytes
read_u64(bytes) ==
    IF Len(bytes) < 8
    THEN ReadErr
    ELSE IF SubSeq(bytes, 1, 4) = <<0, 0, 0, 0>> /\ bytes[5] < 128
    THEN ReadOk(I32FromBeBytes(SubSeq(bytes, 5, 8)), DropBytes(bytes, 8))
    ELSE ReadOk(SubSeq(bytes, 1, 8), DropBytes(bytes, 8))

RECURSIVE IsUtf8(_)
\* String::from_utf8 succeeds: one-byte and two-byte forms; the strings of
\* the model hold no code point above U+07FF
IsUtf8(bytes) ==
    IF bytes = <<>>
    THEN TRUE
    ELSE IF bytes[1] < 128
    THEN IsUtf8(Tail(bytes))
    ELSE /\ bytes[1] \in 194..223
         /\ Len(bytes) >= 2
         /\ bytes[2] \in 128..191
         /\ IsUtf8(DropBytes(bytes, 2))

push_string(value) == push_i32(Len(value)) \o value

\* a negative length becomes, `as usize`, larger than any buffer
read_string(bytes) ==
    LET r == read_i32(bytes)
    IN  IF ~r.ok
        THEN ReadErr
        ELSE IF r.value < 0 \/ Len(r.rest) < r.value
        THEN ReadErr
        ELSE IF ~IsUtf8(SubSeq(r.rest, 1, r.value))
        THEN ReadErr
        ELSE ReadOk(SubSeq(r.rest, 1, r.value), DropBytes(r.rest, r.value))

\* protocol/packet.rs: RoomInfo
RoomInfo(id, metadata) == [id |-> id, metadata |-> metadata]

read_room_info(bytes) ==
    LET i == read_string(bytes)
    IN  IF ~i.ok
        THEN ReadErr
        ELSE LET m == read_string(i.rest)
             IN  IF ~m.ok THEN ReadErr ELSE ReadOk(RoomInfo(i.value, m.value), m.rest)

RECURSIVE push_rooms(_)
\* the `for room in rooms` loop of push_vec_room_info
push_rooms(rooms) ==
    IF rooms = <<>>
    THEN <<>>
    ELSE push_string(rooms[1].id) \o push_string(rooms[1].metadata) \o push_rooms(Tail(rooms))

push_vec_room_info(rooms) == push_i32(Len(rooms)) \o push_rooms(rooms)

RECURSIVE read_rooms(_, _, _)
\* the `for _ in 0..len` loop of read_vec_room_info, with n rooms still to read
read_rooms(n, rooms, rest) ==
    IF n = 0
    THEN ReadOk(rooms, rest)
    ELSE LET r == read_room_info(rest)
         IN  IF ~r.ok THEN ReadErr ELSE read_rooms(n - 1, Append(rooms, r.value), r.rest)

read_vec_room_info(bytes) ==
    LET r == read_i32(bytes)
    IN  IF ~r.ok
        THEN ReadErr
        ELSE IF r.value < 0
        THEN ReadErr
        ELSE read_rooms(r.value, <<>>, r.rest)

\* PacketType::to_bytes
PacketType_to_bytes(m) ==
    <<Opcode(m.op)>> \o
    CASE m.op = "Authenticate" -> push_string(m.app_id) \o push_string(m.version)
      [] m.op = "ClientAuthenticated" -> <<>>
      [] m.op = "CreateRoom" -> push_bool(m.is_public) \o push_string(m.metadata)
      [] m.op = "ReqRooms" -> <<>>
      [] m.op = "GetRooms" -> push_vec_room_info(m.rooms)
      [] m.op = "UpdateRoom" -> push_string(m.room_id) \o push_string(m.metadata)
      [] m.op = "ReqJoin" -> push_string(m.room_id) \o push_string(m.metadata)
      [] m.op = "JoinRes" ->
            push_u64(m.target_id) \o push_string(m.room_id) \o push_bool(m.allowed)
      [] m.op = "ConnectedToRoom" -> push_string(m.room_id) \o push_i32(m.peer_id)
      [] m.op = "PeerJoinAttempt" -> push_u64(m.target_id) \o push_string(m.metadata)
      [] m.op = "PeerJoinedRoom" -> push_i32(m.peer_id)
      [] m.op = "PeerLeftRoom" -> push_i32(m.peer_id)
      [] m.op = "GameData" -> push_i32(m.from_peer) \o m.data
      [] m.op = "ForceDisconnect" -> <<>>
      [] m.op = "Error" -> push_i32(m.error_code) \o push_string(m.error_message)

DecodeOk(packet) == [ok |-> TRUE, packet |-> packet]

\* PacketType::from_bytes
PacketType_from_bytes(bytes) ==
    IF bytes = <<>>
    THEN ReadErr
    ELSE LET packet_id == bytes[1]
             rest == Tail(bytes)
         IN  CASE packet_id = Opcode("Authenticate") ->
                     LET a == read_string(rest)
                     IN  IF ~a.ok
                         THEN ReadErr
                         ELSE LET b == read_string(a.rest)
                              IN  IF ~b.ok THEN ReadErr ELSE DecodeOk(Authenticate(a.value, b.value))
               [] packet_id = Opcode("ClientAuthenticated") -> DecodeOk(ClientAuthenticated)
               [] packet_id = Opcode("CreateRoom") ->
                     LET p == read_bool(rest)
                     IN  IF ~p.ok
                         THEN ReadErr
                         ELSE LET m == read_string(p.rest)
                              IN  DecodeOk(CreateRoom(p.value, IF m.ok THEN m.value ELSE <<>>))
               [] packet_id = Opcode("ReqJoin") ->
                     LET a == read_string(rest)
                     IN  IF ~a.ok
                         THEN ReadErr
                         ELSE LET b == read_string(a.rest)
                              IN  IF ~b.ok THEN ReadErr ELSE DecodeOk(ReqJoin(a.value, b.value))
               [] packet_id = Opcode("ConnectedToRoom") ->
                     LET a == read_string(rest)
                     IN  IF ~a.ok
                         THEN ReadErr
                         ELSE LET b == read_i32(a.rest)
                              IN  IF ~b.ok THEN ReadErr ELSE DecodeOk(ConnectedToRoom(a.value, b.value))
               [] packet_id = Opcode("PeerJoinAttempt") ->
                     LET a == read_u64(rest)
                     IN  IF ~a.ok
                         THEN ReadErr
                         ELSE LET b == read_string(a.rest)
                              IN  IF ~b.ok THEN ReadErr ELSE DecodeOk(PeerJoinAttempt(a.value, b.value))
               [] packet_id = Opcode("PeerJoinedRoom") ->
                     LET p == read_i32(rest)
                     IN  IF ~p.ok THEN ReadErr ELSE DecodeOk(PeerJoinedRoom(p.value))
               [] packet_id = Opcode("PeerLeftRoom") ->
                     LET p == read_i32(rest)
                     IN  IF ~p.ok THEN ReadErr ELSE DecodeOk(PeerLeftRoom(p.value))
               [] packet_id = Opcode("GameData") ->
                     LET p == read_i32(rest)
                     IN  IF ~p.ok THEN ReadErr ELSE DecodeOk(GameData(p.value, p.rest))
               [] packet_id = Opcode("ForceDisconnect") -> DecodeOk(ForceDisconnect)
               [] packet_id = Opcode("Error") ->
                     LET a == read_i32(rest)
                     IN  IF ~a.ok
                         THEN ReadErr
                         ELSE LET b == read_string(a.rest)
                              IN  IF ~b.ok THEN ReadErr ELSE DecodeOk(Error(a.value, b.value))
               [] packet_id = Opcode("ReqRooms") -> DecodeOk(ReqRooms)
               [] packet_id = Opcode("GetRooms") ->
                     LET r == read_vec_room_info(rest)
                     IN  IF ~r.ok THEN ReadErr ELSE DecodeOk(GetRooms(r.value))
               [] packet_id = Opcode("UpdateRoom") ->
                     LET a == read_string(rest)
                     IN  IF ~a.ok
                         THEN ReadErr
                         ELSE LET b == read_string(a.rest)
                              IN  IF ~b.ok THEN ReadErr ELSE DecodeOk(UpdateRoom(a.value, b.value))
               [] packet_id = Opcode("JoinRes") ->
                     LET t == read_u64(rest)
                     IN  IF ~t.ok
                         THEN ReadErr
                         ELSE LET r == read_string(t.rest)
                              IN  IF ~r.ok
                                  THEN ReadErr
                                  ELSE LET a == read_bool(r.rest)
                                       IN  IF ~a.ok
                                           THEN ReadErr
                                           ELSE DecodeOk(JoinRes(t.value, r.value, a.value))
               [] OTHER -> ReadErr

\* the packets the codec is given, over a few values of each field type
CodecPackets ==
    LET CodecStrings == {<<>>, <<74, 49>>, <<195, 169, 0>>}
        CodecI32s == {-2147483647 - 1, -1, 0, 1, 65536, 2147483647}
        CodecU64s == {0, 1, 256, 2147483647}
        CodecBlobs == {<<>>, <<0>>, <<255, 3, 0, 0, 0>>}
        CodecRoomLists ==
            {<<>>, <<RoomInfo(<<>>, <<>>)>>,
             <<RoomInfo(<<74, 49>>, <<195, 169, 0>>), RoomInfo(<<74>>, <<>>)>>}
    IN
    {Authenticate(t, v) : t \in CodecStrings, v \in CodecStrings}
    \cup {ClientAuthenticated, ReqRooms, ForceDisconnect}
    \cup {CreateRoom(p, m) : p \in BOOLEAN, m \in CodecStrings}
    \cup {GetRooms(rs) : rs \in CodecRoomLists}
    \cup {UpdateRoom(r, m) : r \in CodecStrings, m \in CodecStrings}
    \cup {ReqJoin(r, m) : r \in CodecStrings, m \in CodecStrings}
    \cup {JoinRes(t[1], r, t[2]) : t \in CodecU64s \X BOOLEAN, r \in CodecStrings}
    \cup {ConnectedToRoom(r, p) : r \in CodecStrings, p \in CodecI32s}
    \cup {PeerJoinAttempt(t, m) : t \in CodecU64s, m \in CodecStrings}
    \cup {PeerJoinedRoom(p) : p \in CodecI32s}
    \cup {PeerLeftRoom(p) : p \in CodecI32s}
    \cup {GameData(p, d) : p \in CodecI32s, d \in CodecBlobs}
    \cup {Error(c, m) : c \in CodecI32s, m \in CodecStrings}

\* bytes that Packet::from_bytes rejects
InvalidPacket == [op |-> "Invalid"]

(***************************************************************************)
(* relay/clients.rs                                                        *)
(***************************************************************************)
Connected == [state |-> "Connected"]

Authenticated(a) == [state |-> "Authenticated", app_id |-> a]

InRoom(a, r) == [state |-> "InRoom", app_id |-> a, room_id |-> r]

(***************************************************************************)
(* relay/rooms.rs                                                          *)
(***************************************************************************)
Room_new(id, join_code, host_id, is_public, metadata) ==
    [id |-> id, join_code |-> join_code, is_public |-> is_public,
     metadata |-> metadata, host_id |-> host_id,
     client_to_godot |-> EmptyMap, godot_to_client |-> EmptyMap,
     next_godot_id |-> 1]

Room_add_peer_dup(room, client_id) ==
    [room EXCEPT !.client_to_godot = MapInsert(@, client_id, room.next_godot_id),
                 !.godot_to_client = MapInsert(@, room.next_godot_id, client_id)]

\* Room::add_peer; the peer ID handed out is room.next_godot_id
Room_add_peer(room, client_id) ==
    [room EXCEPT !.client_to_godot = MapInsert(@, client_id, room.next_godot_id),
                 !.godot_to_client = MapInsert(@, room.next_godot_id, client_id),
                 !.next_godot_id = @ + 1]

Room_remove_peer_recycle(room, renet_id) ==
    IF renet_id \notin DOMAIN room.client_to_godot
    THEN room
    ELSE [room EXCEPT !.client_to_godot = MapRemove(@, renet_id),
                      !.godot_to_client = MapRemove(@, room.client_to_godot[renet_id]),
                      !.next_godot_id = @ - 1]

Room_remove_peer(room, renet_id) ==
    IF renet_id \notin DOMAIN room.client_to_godot
    THEN room
    ELSE [room EXCEPT !.client_to_godot = MapRemove(@, renet_id),
                      !.godot_to_client = MapRemove(@, room.client_to_godot[renet_id])]

Room_to_info(room) == [join_code |-> room.join_code, metadata |-> room.metadata]

\* generate that does not look at the used set
RoomIds_generate_any(used) == JoinCodes

\* RoomIds::generate draws at random until the code is not in `used`: the
\* possible results.  With every code in use the loop never ends.
RoomIds_generate(used) == JoinCodes \ used

Rooms_new == [by_id |-> EmptyMap, jc_to_id |-> EmptyMap, next_id |-> 0, join_codes |-> {}]

\* Rooms::create, with join_code the result of join_codes.generate()
Rooms_create(rooms, host_id, is_public, metadata, join_code) ==
    [by_id |-> IF rooms.next_id \in DOMAIN rooms.by_id
               THEN rooms.by_id
               ELSE MapInsert(rooms.by_id, rooms.next_id,
                              Room_new(rooms.next_id, join_code, host_id, is_public, metadata)),
     jc_to_id |-> MapInsert(rooms.jc_to_id, join_code, rooms.next_id),
     next_id |-> rooms.next_id + 1,
     join_codes |-> rooms.join_codes \cup {join_code}]

Rooms_get_by_jc(rooms, jc) ==
    IF jc \in DOMAIN rooms.jc_to_id /\ rooms.jc_to_id[jc] \in DOMAIN rooms.by_id
    THEN {rooms.by_id[rooms.jc_to_id[jc]]}
    ELSE {}

Rooms_remove_keep_code(rooms, id) ==
    IF id \notin DOMAIN rooms.by_id
    THEN rooms
    ELSE [rooms EXCEPT !.by_id = MapRemove(@, id)]

Rooms_remove(rooms, id) ==
    IF id \notin DOMAIN rooms.by_id
    THEN rooms
    ELSE [rooms EXCEPT !.by_id = MapRemove(@, id),
                       !.jc_to_id = MapRemove(@, rooms.by_id[id].join_code),
                       !.join_codes = @ \ {rooms.by_id[id].join_code}]

(***************************************************************************)
(* relay/apps.rs                                                           *)
(***************************************************************************)
App_new(id, token) == [id |-> id, token |-> token, rooms |-> Rooms_new]

Apps_new == [by_id |-> EmptyMap, token_to_id |-> EmptyMap, next_id |-> 0]

Apps_create(a, token) ==
    [by_id |-> MapInsert(a.by_id, a.next_id, App_new(a.next_id, token)),
     token_to_id |-> MapInsert(a.token_to_id, token, a.next_id),
     next_id |-> a.next_id + 1]

Apps_get_by_token_none(a, token) == {}

Apps_get_by_token(a, token) ==
    IF token \in DOMAIN a.token_to_id /\ a.token_to_id[token] \in DOMAIN a.by_id
    THEN {a.by_id[a.token_to_id[token]]}
    ELSE {}

(***************************************************************************)
(* udp/sessions.rs.  The clock is an input: which sessions cleanup_sessions *)
(* finds older than the timeout is drawn at the cleanup tick (CleanupTick). *)
(***************************************************************************)
ConnectionManager_new == [id_to_session |-> EmptyMap, addr_to_id |-> EmptyMap, next_client_id |-> 1]

ConnectionManager_create_session_reuse(cm, addr) ==
    LET id == CHOOSE i \in 1..cm.next_client_id :
                  /\ i \notin DOMAIN cm.id_to_session
                  /\ \A j \in 1..(i - 1) : j \in DOMAIN cm.id_to_session
    IN  [id_to_session |-> MapInsert(cm.id_to_session, id, [id |-> id, addr |-> addr]),
         addr_to_id |-> MapInsert(cm.addr_to_id, addr, id),
         next_client_id |-> cm.next_client_id + 1]

ConnectionManager_create_session(cm, addr) ==
    [id_to_session |-> MapInsert(cm.id_to_session, cm.next_client_id,
                                 [id |-> cm.next_client_id, addr |-> addr]),
     addr_to_id |-> MapInsert(cm.addr_to_id, addr, cm.next_client_id),
     next_client_id |-> cm.next_client_id + 1]

\* remove_session that leaves addr_to_id as it is
ConnectionManager_remove_session_keep_addr(cm, id) ==
    [cm EXCEPT !.id_to_session = MapRemove(@, id)]

ConnectionManager_remove_session(cm, id) ==
    IF id \notin DOMAIN cm.id_to_session
    THEN cm
    ELSE [cm EXCEPT !.id_to_session = MapRemove(@, id),
                    !.addr_to_id = MapRemove(@, cm.id_to_session[id].addr)]

\* cleanup_sessions, with expired the ids whose last_heard_from is too old:
\* each is removed from id_to_session, and its session's addr from addr_to_id
ConnectionManager_cleanup_sessions(cm, expired) ==
    LET addrs == {cm.id_to_session[id].addr : id \in expired \cap DOMAIN cm.id_to_session}
    IN  [cm EXCEPT !.id_to_session = [id \in (DOMAIN @) \ expired |-> @[id]],
                   !.addr_to_id = [a \in (DOMAIN @) \ addrs |-> @[a]]]

(***************************************************************************)
(* The state of the relay.                                                 *)
(***************************************************************************)
VARIABLES
    clients,            \* RelayServer.clients: ClientId -> ClientState
    apps,               \* RelayServer.apps: Apps
    connection_manager, \* PaperInterface.connection_manager
    pending_events,     \* PaperInterface.pending_events
    events,             \* the events RelayServer::run is handling, in order
    outbox,             \* the PaperInterface::send calls of the last handled event
    config,             \* RelayServer.config
    peer_ids_used,      \* history: per live room, the peer IDs it has handed out
    remote_check        \* the Authenticate whose remote whitelist request is awaited

dirVars == <<clients, apps, connection_manager, pending_events, events, outbox, config,
             peer_ids_used, remote_check>>

\* One reliable direction of transport/: A's ReliableSender feeds B's
\* ReliableReceiver.
VARIABLES
    reliable_sender,    \* A's ClientSession.reliable_sender
    reliable_receiver,  \* B's ClientSession.reliable_receiver
    pending_acks,       \* pending_acks of B's reliable_sender
    data_frames,        \* type-0 datagrams in flight from A to B
    ack_frames,         \* type-2 datagrams in flight from B to A
    sent_log,           \* history: the payloads passed to send, in order
    released            \* history: the payloads B released as PacketReceived

relVars == <<reliable_sender, reliable_receiver, pending_acks, data_frames, ack_frames,
             sent_log, released>>

\* The receive loop of transport/, and one packet on its way through the
\* codec of protocol/.
VARIABLES
    recv_task,          \* the task that runs B's recv_events: "running" or "panicked"
    sent_msg,           \* the PacketType given to to_bytes
    wire_bytes,         \* the bytes to_bytes returned
    recv_msg            \* what from_bytes returned for wire_bytes

\* Two sequence numbers under comparison (transport/reliability.rs), the
\* RelayServer of relay/server.rs with its RoomIds, and the GameServer of
\* game/server.rs.
VARIABLES
    seq_a,              \* a SequenceNumber, as the two 16-bit halves of its u32
    seq_b,              \* another one
    newer,              \* <<seq_a.is_newer_than(seq_b), seq_b.is_newer_than(seq_a)>> once computed
    relay_id,           \* RelayServer.config.relay_id
    room_ids,           \* RelayServer.room_ids.used
    rs_clients,         \* RelayServer.clients: GodotClientState by client id
    rs_apps,            \* RelayServer.apps: by app id, the rooms of the App by room id
    gs_apps,            \* GameServer.apps: by app id, the rooms of the App by room id
    gs_sessions,        \* GameServer.sessions: app_id by client id
    gs_client_to_room,  \* GameServer.client_to_room
    gs_task             \* the task that runs GameServer::run: "running" or "panicked"

auxVars == <<recv_task, sent_msg, wire_bytes, recv_msg,
             seq_a, seq_b, newer,
             relay_id, room_ids, rs_clients, rs_apps,
             gs_apps, gs_sessions, gs_client_to_room, gs_task>>

(***************************************************************************)
(* transport/reliability.rs.  An Instant is kept as the time elapsed since  *)
(* it, in ticks of 250 ms that saturate at MaxAge.  SentPacket.resend_count *)
(* is left out: it is written and read only by an empty branch.             *)
(***************************************************************************)
\* SequenceNumber is a u32 with wrapping arithmetic; the model wraps at a
\* smaller modulus, beyond the sequence numbers a run reaches
SeqModulus == 16

SeqHalf == SeqModulus \div 2

\* ack_timeout, 200 ms, in whole ticks: an age above it is more than 200 ms
AckTimeout == 0

\* the 50 ms between two resend checks, in ticks rounded up
ResendCheckInterval == 1

\* the age at which the elapsed times saturate
MaxAge == 1

\* payloads one sender is given
MaxSends == 3

\* payloads one sender is given where eventual delivery is checked
MaxSendsFair == 2

Payloads == {"x", "y"}

SequenceNumber_next(seq) == (seq + 1) % SeqModulus

SequenceNumber_is_newer_than(seq, other) == ((seq - other) % SeqModulus) < SeqHalf

\* is_newer_than with `<=` in place of `<`
SequenceNumber_is_newer_than_u32_le(a, b) ==
    LET borrow == IF a.lo < b.lo THEN 1 ELSE 0
        diff == [hi |-> (a.hi - b.hi - borrow) % 65536, lo |-> (a.lo - b.lo) % 65536]
    IN  diff.hi < 32768 \/ (diff.hi = 32768 /\ diff.lo = 0)

\* SequenceNumber::is_newer_than at the width of the code, on two u32 given as
\* their 16-bit halves: diff is self.0.wrapping_sub(other.0), and
\* diff < 2_147_483_648 is "the upper half of diff is below 2^15"
SequenceNumber_is_newer_than_u32(a, b) ==
    LET borrow == IF a.lo < b.lo THEN 1 ELSE 0
        diff == [hi |-> (a.hi - b.hi - borrow) % 65536, lo |-> (a.lo - b.lo) % 65536]
    IN  diff.hi < 32768

ReliableSender_new ==
    [next_sequence_num |-> 0, sent_packets |-> EmptyMap, last_resend_check |-> 0]

\* ReliableSender::send: the new state and the sequence number returned
ReliableSender_send(s, data) ==
    [sender |-> [s EXCEPT !.next_sequence_num = SequenceNumber_next(@),
                          !.sent_packets = MapInsert(@, s.next_sequence_num,
                                                     [data |-> data, sent_at |-> 0])],
     seq |-> s.next_sequence_num]

ReliableSender_get_resends_never(s) == [sender |-> s, resends |-> {}]

\* ReliableSender::get_resends: the new state and the (seq, data) to resend
ReliableSender_get_resends(s) ==
    IF s.last_resend_check < ResendCheckInterval
    THEN [sender |-> s, resends |-> {}]
    ELSE LET due == {q \in DOMAIN s.sent_packets : s.sent_packets[q].sent_at > AckTimeout}
         IN  [sender |-> [s EXCEPT !.last_resend_check = 0,
                                   !.sent_packets = [q \in DOMAIN @ |->
                                        IF q \in due THEN [@[q] EXCEPT !.sent_at = 0] ELSE @[q]]],
              resends |-> {[seq |-> q, data |-> s.sent_packets[q].data] : q \in due}]

ReliableSender_ack_received(s, seq) == [s EXCEPT !.sent_packets = MapRemove(@, seq)]

ReliableReceiver_new ==
    [highest_seq_received |-> 0, received_packets |-> EmptyMap,
     ordered_buffer |-> <<>>, expected_next |-> 0]

RECURSIVE drain_buffered(_)
\* the `while let Some(buffered) = self.received_packets.remove(&self.expected_next)`
\* loop of receive, on [receiver, acks]
drain_buffered(ra) ==
    IF ra.receiver.expected_next \notin DOMAIN ra.receiver.received_packets
    THEN ra
    ELSE drain_buffered(
        [receiver |-> [ra.receiver EXCEPT
                          !.ordered_buffer = Append(@, ra.receiver.received_packets[ra.receiver.expected_next]),
                          !.received_packets = MapRemove(@, ra.receiver.expected_next),
                          !.expected_next = SequenceNumber_next(@)],
         acks |-> Append(ra.acks, ra.receiver.expected_next)])

ReliableReceiver_receive_eager(r, seq, data) ==
    [receiver |-> [r EXCEPT !.ordered_buffer = Append(@, data),
                            !.expected_next = SequenceNumber_next(seq)],
     acks |-> <<seq>>]

ReliableReceiver_receive_mute(r, seq, data) ==
    LET r1 == IF SequenceNumber_is_newer_than(seq, r.highest_seq_received)
                 \/ r.highest_seq_received = 0
              THEN [r EXCEPT !.highest_seq_received = seq]
              ELSE r
    IN  IF seq = r1.expected_next
        THEN drain_buffered([receiver |-> [r1 EXCEPT !.ordered_buffer = Append(@, data),
                                                     !.expected_next = SequenceNumber_next(seq)],
                             acks |-> <<seq>>])
        ELSE IF seq > r1.expected_next
        THEN [receiver |-> [r1 EXCEPT !.received_packets = MapInsert(@, seq, data)],
              acks |-> <<seq>>]
        ELSE [receiver |-> r1, acks |-> <<>>]

\* ReliableReceiver::receive: the new state and the sequence numbers to ACK
ReliableReceiver_receive(r, seq, data) ==
    LET r1 == IF SequenceNumber_is_newer_than(seq, r.highest_seq_received)
                 \/ r.highest_seq_received = 0
              THEN [r EXCEPT !.highest_seq_received = seq]
              ELSE r
    IN  IF seq = r1.expected_next
        THEN drain_buffered([receiver |-> [r1 EXCEPT !.ordered_buffer = Append(@, data),
                                                     !.expected_next = SequenceNumber_next(seq)],
                             acks |-> <<seq>>])
        ELSE IF seq > r1.expected_next
        THEN [receiver |-> [r1 EXCEPT !.received_packets = MapInsert(@, seq, data)],
              acks |-> <<seq>>]
        ELSE [receiver |-> r1, acks |-> <<seq>>]

ReliableReceiver_take_all_packets(r) ==
    [receiver |-> [r EXCEPT !.ordered_buffer = <<>>], packets |-> r.ordered_buffer]

\* the orders in which a HashMap may iterate over ClientIds
Orders == {o \in [1..MaxClientId -> ClientIds] : \A i, j \in 1..MaxClientId : i # j => o[i] # o[j]}

IdentityOrder == [i \in 1..MaxClientId |-> i]

\* the members of S in the order o
InOrder(S, o) == SelectSeq(o, LAMBDA x : x \in S)

(***************************************************************************)
(* udp/paper_interface.rs: send and remove_client, on the world            *)
(* w = [clients, apps, cm, out] a handler works on.                        *)
(***************************************************************************)
\* PaperInterface::send: the frame is written only while the session exists
PaperInterface_send(w, target, packet, channel) ==
    [w EXCEPT !.out = Append(@, [to |-> target, packet |-> packet, channel |-> channel,
                                 written |-> target \in DOMAIN w.cm.id_to_session])]

PaperInterface_remove_client(w, id) ==
    [w EXCEPT !.cm = ConnectionManager_remove_session(@, id)]

send_err(w, target, msg) == PaperInterface_send(w, target, Error(401, msg), "Reliable")

force_disconnect(w, target) ==
    PaperInterface_remove_client(PaperInterface_send(w, target, ForceDisconnect, "Reliable"), target)

(***************************************************************************)
(* relay/handlers/auth.rs                                                  *)
(***************************************************************************)
is_version_allowed(cfg, version) == version \in cfg.allowed_versions

check_local_whitelist(cfg, app) == cfg.whitelist = {} \/ app \in cfg.whitelist

\* remote: the answer of the remote whitelist endpoint ("ok", "not_found", "error")
is_app_allowed(cfg, app, remote) ==
    IF ~cfg.remote
    THEN check_local_whitelist(cfg, app)
    ELSE CASE remote = "ok" -> TRUE
           [] remote = "not_found" -> FALSE
           [] OTHER -> check_local_whitelist(cfg, app)

authenticate_client(w, cfg, sender_id, app_token, version, remote) ==
    IF ~is_version_allowed(cfg, version)
    THEN force_disconnect(send_err(w, sender_id, <<"Version ", version, " is not allowed.">>), sender_id)
    ELSE IF ~is_app_allowed(cfg, app_token, remote)
    THEN w
    ELSE IF sender_id \notin DOMAIN w.clients
    THEN w
    ELSE LET apps1 == IF Apps_get_by_token(w.apps, app_token) = {}
                      THEN Apps_create(w.apps, app_token)
                      ELSE w.apps
             app_id == apps1.token_to_id[app_token]
         IN  PaperInterface_send([w EXCEPT !.apps = apps1,
                                           !.clients[sender_id] = Authenticated(app_id)],
                                 sender_id, ClientAuthenticated, "Reliable")

(***************************************************************************)
(* relay/handlers/room.rs                                                  *)
(***************************************************************************)
\* join_code: the code RoomIds::generate draws
create_room(w, sender_id, app_id, is_public, metadata, join_code) ==
    IF app_id \notin DOMAIN w.apps.by_id
    THEN w
    ELSE IF sender_id \notin DOMAIN w.clients
    THEN w
    ELSE LET rooms0 == w.apps.by_id[app_id].rooms
             rooms1 == Rooms_create(rooms0, sender_id, is_public, metadata, join_code)
             room == rooms1.by_id[rooms0.next_id]
             rooms2 == [rooms1 EXCEPT !.by_id[rooms0.next_id] = Room_add_peer(room, sender_id)]
         IN  PaperInterface_send([w EXCEPT !.apps.by_id[app_id].rooms = rooms2,
                                           !.clients[sender_id] = InRoom(app_id, room.id)],
                                 sender_id,
                                 ConnectedToRoom(room.join_code, room.next_godot_id),
                                 "Reliable")

send_rooms_all(w, target, app_id) ==
    IF app_id \notin DOMAIN w.apps.by_id
    THEN w
    ELSE LET by_id == w.apps.by_id[app_id].rooms.by_id
         IN  PaperInterface_send(w, target,
                                 GetRooms({Room_to_info(by_id[r]) : r \in DOMAIN by_id}),
                                 "Reliable")

send_rooms(w, target, app_id) ==
    IF app_id \notin DOMAIN w.apps.by_id
    THEN w
    ELSE LET by_id == w.apps.by_id[app_id].rooms.by_id
         IN  PaperInterface_send(w, target,
                                 GetRooms({Room_to_info(by_id[r]) : r \in {x \in DOMAIN by_id : by_id[x].is_public}}),
                                 "Reliable")

update_room(w, sender_id, app_id, room_id, metadata) ==
    IF room_id \notin DOMAIN w.apps.by_id[app_id].rooms.by_id
    THEN send_err(w, sender_id, <<"Room not found">>)
    ELSE [w EXCEPT !.apps.by_id[app_id].rooms.by_id[room_id].metadata = metadata]

remove_room(w, app_id, room_id) ==
    IF app_id \notin DOMAIN w.apps.by_id
    THEN w
    ELSE [w EXCEPT !.apps.by_id[app_id].rooms = Rooms_remove(@, room_id)]

recv_join_req_admits(w, sender_id, app_id, room_id, metadata) ==
    IF app_id \notin DOMAIN w.apps.by_id
    THEN w
    ELSE LET found == Rooms_get_by_jc(w.apps.by_id[app_id].rooms, room_id)
         IN  IF found = {}
             THEN send_err(w, sender_id, <<"Room not found">>)
             ELSE PaperInterface_send([w EXCEPT !.clients[sender_id] =
                                                    InRoom(app_id, (CHOOSE r \in found : TRUE).id)],
                                      (CHOOSE r \in found : TRUE).host_id,
                                      PeerJoinAttempt(sender_id, metadata), "Reliable")

recv_join_req(w, sender_id, app_id, room_id, metadata) ==
    IF app_id \notin DOMAIN w.apps.by_id
    THEN w
    ELSE LET found == Rooms_get_by_jc(w.apps.by_id[app_id].rooms, room_id)
         IN  IF found = {}
             THEN send_err(w, sender_id, <<"Room not found">>)
             ELSE PaperInterface_send(w, (CHOOSE r \in found : TRUE).host_id,
                                      PeerJoinAttempt(sender_id, metadata), "Reliable")

recv_join_res(w, app_id, target_id, room_id, allowed) ==
    IF allowed
    THEN IF target_id \notin DOMAIN w.clients
         THEN w
         ELSE IF room_id \notin DOMAIN w.apps.by_id[app_id].rooms.by_id
         THEN send_err(w, target_id, <<"Room not found">>)
         ELSE LET room == w.apps.by_id[app_id].rooms.by_id[room_id]
                  w1 == [w EXCEPT !.apps.by_id[app_id].rooms.by_id[room_id] = Room_add_peer(room, target_id),
                                  !.clients[target_id] = InRoom(app_id, room_id)]
                  w2 == PaperInterface_send(w1, target_id,
                                            ConnectedToRoom(U64ToString(room_id), room.next_godot_id),
                                            "Reliable")
              IN  PaperInterface_send(w2, room.host_id, PeerJoinedRoom(room.next_godot_id), "Reliable")
    ELSE send_err(w, target_id, <<"Room host denied entry">>)

(***************************************************************************)
(* relay/handlers/game_data.rs                                             *)
(***************************************************************************)
route_game_data_reliable(w, sender_id, client_app_id, client_room_id, target_peer, data, channel) ==
    IF client_app_id \notin DOMAIN w.apps.by_id
    THEN w
    ELSE IF client_room_id \notin DOMAIN w.apps.by_id[client_app_id].rooms.by_id
    THEN w
    ELSE LET room == w.apps.by_id[client_app_id].rooms.by_id[client_room_id]
         IN  IF sender_id \notin DOMAIN room.client_to_godot
             THEN w
             ELSE IF target_peer \notin DOMAIN room.godot_to_client
             THEN w
             ELSE PaperInterface_send(w, room.godot_to_client[target_peer],
                                      GameData(room.client_to_godot[sender_id], data), "Reliable")

route_game_data(w, sender_id, client_app_id, client_room_id, target_peer, data, channel) ==
    IF client_app_id \notin DOMAIN w.apps.by_id
    THEN w
    ELSE IF client_room_id \notin DOMAIN w.apps.by_id[client_app_id].rooms.by_id
    THEN w
    ELSE LET room == w.apps.by_id[client_app_id].rooms.by_id[client_room_id]
         IN  IF sender_id \notin DOMAIN room.client_to_godot
             THEN w
             ELSE IF target_peer \notin DOMAIN room.godot_to_client
             THEN w
             ELSE PaperInterface_send(w, room.godot_to_client[target_peer],
                                      GameData(room.client_to_godot[sender_id], data), channel)

(***************************************************************************)
(* relay/handlers/disconnect.rs                                            *)
(***************************************************************************)
RECURSIVE kick_peers(_, _)
\* the loop of handle_host_disconnect over peers_to_kick
kick_peers(w, peers_to_kick) ==
    IF peers_to_kick = <<>>
    THEN w
    ELSE kick_peers(force_disconnect([w EXCEPT !.clients = MapRemove(@, Head(peers_to_kick))],
                                     Head(peers_to_kick)),
                    Tail(peers_to_kick))

handle_host_disconnect_no_kick(w, app_id, room_id, peers_to_kick) ==
    remove_room(w, app_id, room_id)

handle_host_disconnect(w, app_id, room_id, peers_to_kick) ==
    kick_peers(remove_room(w, app_id, room_id), peers_to_kick)

RECURSIVE notify_peers(_, _, _)
\* the loop of handle_peer_disconnect over other_peers
notify_peers(w, other_peers, peer_godot_id) ==
    IF other_peers = <<>>
    THEN w
    ELSE notify_peers(PaperInterface_send(w, Head(other_peers), PeerLeftRoom(peer_godot_id), "Reliable"),
                      Tail(other_peers), peer_godot_id)

handle_peer_disconnect(w, app_id, room_id, client_id, peer_godot_id, other_peers) ==
    LET w1 == IF app_id \in DOMAIN w.apps.by_id
                 /\ room_id \in DOMAIN w.apps.by_id[app_id].rooms.by_id
              THEN [w EXCEPT !.apps.by_id[app_id].rooms.by_id[room_id] = Room_remove_peer(@, client_id)]
              ELSE w
    IN  notify_peers(w1, other_peers, peer_godot_id)

\* order: the order in which room.get_clients() lists the HashMap's keys
handle_room_disconnect(w, sender_id, app_id, room_id, order) ==
    IF app_id \notin DOMAIN w.apps.by_id
    THEN w
    ELSE IF room_id \notin DOMAIN w.apps.by_id[app_id].rooms.by_id
    THEN w
    ELSE LET room == w.apps.by_id[app_id].rooms.by_id[room_id]
             other_peers == InOrder((DOMAIN room.client_to_godot) \ {sender_id}, order)
         IN  IF sender_id \notin DOMAIN room.client_to_godot
             THEN w
             ELSE IF room.host_id = sender_id
             THEN handle_host_disconnect(w, app_id, room_id, other_peers)
             ELSE handle_peer_disconnect(w, app_id, room_id, sender_id,
                                         room.client_to_godot[sender_id], other_peers)

handle_disconnect(w, client_id, order) ==
    IF client_id \notin DOMAIN w.clients
    THEN w
    ELSE LET client == w.clients[client_id]
             w1 == [w EXCEPT !.clients = MapRemove(@, client_id)]
         IN  IF client.state = "InRoom"
             THEN handle_room_disconnect(w1, client_id, client.app_id, client.room_id, order)
             ELSE w1

(***************************************************************************)
(* relay/server.rs: the dispatch by client state.                          *)
(* nd = [join_code, remote, order]: what the handling draws from outside   *)
(* (the random join code, the remote whitelist's answer, HashMap order).   *)
(***************************************************************************)
handle_unauth_packet(w, cfg, from_client_id, packet, nd) ==
    IF packet.op = "Authenticate"
    THEN authenticate_client(w, cfg, from_client_id, packet.app_id, packet.version, nd.remote)
    ELSE w

handle_auth_packet_lax(w, from_client_id, client_app_id, packet, nd) ==
    CASE packet.op = "CreateRoom" ->
            create_room(w, from_client_id, client_app_id, packet.is_public, packet.metadata, nd.join_code)
      [] packet.op = "ReqJoin" ->
            recv_join_req(w, from_client_id, client_app_id, packet.room_id, packet.metadata)
      [] packet.op = "ReqRooms" ->
            send_rooms(w, from_client_id, client_app_id)
      [] packet.op = "Authenticate" ->
            [w EXCEPT !.clients[from_client_id] = Connected]
      [] OTHER -> w

handle_auth_packet(w, from_client_id, client_app_id, packet, nd) ==
    CASE packet.op = "CreateRoom" ->
            create_room(w, from_client_id, client_app_id, packet.is_public, packet.metadata, nd.join_code)
      [] packet.op = "ReqJoin" ->
            recv_join_req(w, from_client_id, client_app_id, packet.room_id, packet.metadata)
      [] packet.op = "ReqRooms" ->
            send_rooms(w, from_client_id, client_app_id)
      [] OTHER -> w

handle_room_packet(w, from_client_id, client_app_id, client_room_id, packet, channel) ==
    CASE packet.op = "UpdateRoom" ->
            update_room(w, from_client_id, client_app_id, client_room_id, packet.metadata)
      [] packet.op = "JoinRes" ->
            recv_join_res(w, client_app_id, packet.target_id, client_room_id, packet.allowed)
      [] packet.op = "GameData" ->
            route_game_data(w, from_client_id, client_app_id, client_room_id,
                            packet.from_peer, packet.data, channel)
      [] OTHER -> w

handle_packet(w, cfg, from_client_id, data, channel, nd) ==
    IF from_client_id \notin DOMAIN w.clients
    THEN w
    ELSE IF data.op = "Invalid"
    THEN w
    ELSE LET client_state == w.clients[from_client_id]
         IN  CASE client_state.state = "Connected" ->
                    handle_unauth_packet(w, cfg, from_client_id, data, nd)
               [] client_state.state = "Authenticated" ->
                    handle_auth_packet(w, from_client_id, client_state.app_id, data, nd)
               [] client_state.state = "InRoom" ->
                    handle_room_packet(w, from_client_id, client_state.app_id,
                                       client_state.room_id, data, channel)

handle_connect(w, client_id) == [w EXCEPT !.clients = MapInsert(@, client_id, Connected)]

\* data: the bytes of a PacketReceived event, decoded
handle_event(w, cfg, event, data, nd) ==
    CASE event.type = "ClientConnected" -> handle_connect(w, event.client_id)
      [] event.type = "ClientDisconnected" -> handle_disconnect(w, event.client_id, nd.order)
      [] event.type = "PacketReceived" ->
            handle_packet(w, cfg, event.client_id, data, event.channel, nd)

(***************************************************************************)
(* What clients put on the wire.                                           *)
(***************************************************************************)
InPackets ==
    {Authenticate(t, v) : t \in Tokens, v \in Versions}
    \cup {CreateRoom(p, "m1") : p \in BOOLEAN}
    \cup {ReqRooms, UpdateRoom("", "m2"), ForceDisconnect, InvalidPacket}
    \cup {ReqJoin(jc, "m1") : jc \in JoinCodes}
    \cup {JoinRes(t, "", a) : t \in ClientIds, a \in BOOLEAN}
    \cup {GameData(p, "blob") : p \in 1..2}

\* what Channel::decode makes of a datagram; a payload is opaque bytes until
\* handle_packet decodes it, and the model draws its content there.  An
\* unreliable payload of the one byte [3] is a heartbeat.
DecodeResults ==
    {[kind |-> "None"], [kind |-> "Ack"],
     [kind |-> "Reliable", payload |-> <<>>],
     [kind |-> "Reliable", payload |-> <<"bytes">>],
     [kind |-> "Unreliable", payload |-> <<"heartbeat">>],
     [kind |-> "Unreliable", payload |-> <<"bytes">>]}

Configs ==
    {[allowed_versions |-> {"v1"}, whitelist |-> {"t1"}, remote |-> TRUE],
     [allowed_versions |-> {}, whitelist |-> {}, remote |-> FALSE]}

ClientConnected(id) == [type |-> "ClientConnected", client_id |-> id]

ClientDisconnected(id) == [type |-> "ClientDisconnected", client_id |-> id]

PacketReceived(id, channel) ==
    [type |-> "PacketReceived", client_id |-> id, channel |-> channel]

World == [clients |-> clients, apps |-> apps, cm |-> connection_manager, out |-> <<>>]

\* the live rooms of the directory a, as <<AppId, RoomId>>
LiveRooms(a) ==
    UNION {{<<app_id, room_id>> : room_id \in DOMAIN a.by_id[app_id].rooms.by_id} :
           app_id \in DOMAIN a.by_id}

RoomAt(a, k) == a.by_id[k[1]].rooms.by_id[k[2]]

\* Room::get_clients
Room_get_clients(room) == DOMAIN room.client_to_godot

\* the peer IDs the live rooms of a have handed out, given those handed out so far
PeerIdsUsed(used, a) ==
    [k \in LiveRooms(a) |->
        (IF k \in DOMAIN used THEN used[k] ELSE {})
        \cup DOMAIN RoomAt(a, k).godot_to_client
        \cup MapValues(RoomAt(a, k).client_to_godot)]

\* RelayServer::new over a fresh PaperInterface; the transport of the
\* reliability engine idle
Init ==
    /\ clients = EmptyMap
    /\ apps = Apps_new
    /\ connection_manager = ConnectionManager_new
    /\ pending_events = <<>>
    /\ events = <<>>
    /\ outbox = <<>>
    /\ config \in Configs
    /\ peer_ids_used = EmptyMap
    /\ remote_check = <<>>
    /\ reliable_sender = ReliableSender_new
    /\ reliable_receiver = ReliableReceiver_new
    /\ pending_acks = <<>>
    /\ data_frames = {}
    /\ ack_frames = {}
    /\ sent_log = <<>>
    /\ released = <<>>
    /\ recv_task = "running"
    /\ sent_msg = <<>>
    /\ wire_bytes = <<>>
    /\ recv_msg = <<>>
    /\ seq_a = [hi |-> 0, lo |-> 0]
    /\ seq_b = [hi |-> 0, lo |-> 0]
    /\ newer = <<>>
    /\ relay_id = <<>>
    /\ room_ids = {}
    /\ rs_clients = EmptyMap
    /\ rs_apps = EmptyMap
    /\ gs_apps = EmptyMap
    /\ gs_sessions = EmptyMap
    /\ gs_client_to_room = EmptyMap
    /\ gs_task = "running"

(***************************************************************************)
(* udp/paper_interface.rs: recv_events, one datagram of its inner loop.    *)
(***************************************************************************)
PayloadEvents(id, res) ==
    IF res.kind = "Unreliable"
    THEN IF res.payload = <<"heartbeat">>
         THEN <<>>
         ELSE <<PacketReceived(id, "Unreliable")>>
    ELSE IF res.kind = "Reliable" /\ res.payload # <<>>
    THEN <<PacketReceived(id, "Reliable")>>
    ELSE <<>>

RecvDatagram ==
    /\ events = <<>>
    /\ \E addr \in Addrs, res \in DecodeResults :
        LET is_new == addr \notin DOMAIN connection_manager.addr_to_id
            cm1 == IF is_new
                   THEN ConnectionManager_create_session(connection_manager, addr)
                   ELSE connection_manager
            id == cm1.addr_to_id[addr]
            new_events == (IF is_new THEN <<ClientConnected(id)>> ELSE <<>>)
                          \o PayloadEvents(id, res)
        IN  /\ is_new => connection_manager.next_client_id <= MaxClientId
            /\ Len(SelectSeq(pending_events \o new_events,
                              LAMBDA e : e.type = "PacketReceived")) <= MaxPending
            /\ pending_events' = pending_events \o new_events
            /\ connection_manager' = IF res.kind = "None"
                                     THEN ConnectionManager_remove_session(cm1, id)
                                     ELSE cm1
    /\ outbox' = <<>>
    /\ UNCHANGED <<clients, apps, events, config, peer_ids_used, remote_check>>
    /\ UNCHANGED <<relVars, auxVars>>

\* recv_events returns the pending events to RelayServer::run
ReturnEvents ==
    /\ events = <<>>
    /\ pending_events # <<>>
    /\ events' = pending_events
    /\ pending_events' = <<>>
    /\ outbox' = <<>>
    /\ UNCHANGED <<clients, apps, connection_manager, config, peer_ids_used, remote_check>>
    /\ UNCHANGED <<relVars, auxVars>>

(***************************************************************************)
(* relay/server.rs: RelayServer::run                                       *)
(***************************************************************************)
\* whether handling the event reaches Rooms::create
ReachesCreate(ev, data) ==
    /\ ev.type = "PacketReceived"
    /\ data.op = "CreateRoom"
    /\ ev.client_id \in DOMAIN clients
    /\ clients[ev.client_id].state = "Authenticated"
    /\ clients[ev.client_id].app_id \in DOMAIN apps.by_id

\* whether handling the event reaches Room::add_peer in recv_join_res
ReachesAddPeer(ev, data) ==
    /\ ev.type = "PacketReceived"
    /\ data.op = "JoinRes"
    /\ data.allowed
    /\ ev.client_id \in DOMAIN clients
    /\ clients[ev.client_id].state = "InRoom"
    /\ data.target_id \in DOMAIN clients
    /\ clients[ev.client_id].room_id \in DOMAIN apps.by_id[clients[ev.client_id].app_id].rooms.by_id

\* whether handling the event asks the remote whitelist
ReachesRemote(ev, data) ==
    /\ ev.type = "PacketReceived"
    /\ data.op = "Authenticate"
    /\ ev.client_id \in DOMAIN clients
    /\ clients[ev.client_id].state = "Connected"
    /\ is_version_allowed(config, data.version)
    /\ config.remote

\* the bytes a PacketReceived event may carry, decoded
Datas(ev) == IF ev.type = "PacketReceived" THEN InPackets ELSE {InvalidPacket}

\* what the handling of ev may draw; empty when generate() cannot return
Draws(ev, data) ==
    [join_code : IF ReachesCreate(ev, data)
                 THEN RoomIds_generate(apps.by_id[clients[ev.client_id].app_id].rooms.join_codes)
                 ELSE {"none"},
     remote : IF ReachesRemote(ev, data) THEN {"ok", "not_found", "error"} ELSE {"none"},
     order : IF ev.type = "ClientDisconnected" THEN Orders ELSE {IdentityOrder}]

\* the caps on the counters, with max_peer the peer IDs a Room may hand out
WithinCaps(ev, data, max_peer) ==
    /\ ReachesCreate(ev, data) => apps.by_id[clients[ev.client_id].app_id].rooms.next_id < MaxRoomId
    /\ ReachesAddPeer(ev, data) =>
          apps.by_id[clients[ev.client_id].app_id].rooms.by_id[clients[ev.client_id].room_id].next_godot_id
              <= max_peer

\* check_remote_whitelist sends its request and awaits the answer: the
\* handling of the event stands at `.send().await`, inside the select! arm
SendRemoteCheck ==
    /\ events # <<>>
    /\ remote_check = <<>>
    /\ \E data \in Datas(Head(events)) :
        /\ ReachesRemote(Head(events), data)
        /\ remote_check' = <<data>>
    /\ UNCHANGED <<clients, apps, connection_manager, pending_events, events, outbox, config,
                   peer_ids_used>>
    /\ UNCHANGED <<relVars, auxVars>>

\* one iteration of `for event in events { self.handle_event(event).await }`;
\* a handling that asks the remote whitelist ends when the answer is there
HandleEvent(max_peer) ==
    /\ events # <<>>
    /\ \E data \in Datas(Head(events)) :
        /\ IF remote_check # <<>>
           THEN data = remote_check[1]
           ELSE ~ReachesRemote(Head(events), data)
        /\ WithinCaps(Head(events), data, max_peer)
        /\ \E nd \in Draws(Head(events), data) :
            LET w == handle_event(World, config, Head(events), data, nd)
            IN  /\ clients' = w.clients
                /\ apps' = w.apps
                /\ connection_manager' = w.cm
                /\ outbox' = w.out
                /\ peer_ids_used' = PeerIdsUsed(peer_ids_used, w.apps)
    /\ events' = Tail(events)
    /\ remote_check' = <<>>
    /\ UNCHANGED <<pending_events, config>>
    /\ UNCHANGED <<relVars, auxVars>>

\* the cleanup tick: cleanup_sessions, then ClientDisconnected for each expired
\* id, in the order of the HashMap
CleanupTick ==
    /\ events = <<>>
    /\ \E expired \in (SUBSET DOMAIN connection_manager.id_to_session) \ {{}}, order \in Orders :
        /\ events' = [i \in 1..Cardinality(expired) |-> ClientDisconnected(InOrder(expired, order)[i])]
        /\ connection_manager' = ConnectionManager_cleanup_sessions(connection_manager, expired)
    /\ outbox' = <<>>
    /\ UNCHANGED <<clients, apps, pending_events, config, peer_ids_used, remote_check>>
    /\ UNCHANGED <<relVars, auxVars>>

\* the arms of the select! of run that act on the directory
NextLoop(max_peer) == RecvDatagram \/ ReturnEvents \/ HandleEvent(max_peer) \/ CleanupTick

NextDir == NextLoop(MaxPeerId) \/ SendRemoteCheck

vars == <<dirVars, relVars, auxVars>>

Spec == Init /\ [][NextDir]_vars

\* peer IDs one Room may hand out where the relay admits by its local whitelist
MaxPeerIdLocal == 3

\* RelayServer::new with one version allowed, a local whitelist of one token
\* and no remote whitelist
InitLocal ==
    /\ clients = EmptyMap
    /\ apps = Apps_new
    /\ connection_manager = ConnectionManager_new
    /\ pending_events = <<>>
    /\ events = <<>>
    /\ outbox = <<>>
    /\ config = [allowed_versions |-> {"v1"}, whitelist |-> {"t1"}, remote |-> FALSE]
    /\ peer_ids_used = EmptyMap
    /\ remote_check = <<>>
    /\ reliable_sender = ReliableSender_new
    /\ reliable_receiver = ReliableReceiver_new
    /\ pending_acks = <<>>
    /\ data_frames = {}
    /\ ack_frames = {}
    /\ sent_log = <<>>
    /\ released = <<>>
    /\ recv_task = "running"
    /\ sent_msg = <<>>
    /\ wire_bytes = <<>>
    /\ recv_msg = <<>>
    /\ seq_a = [hi |-> 0, lo |-> 0]
    /\ seq_b = [hi |-> 0, lo |-> 0]
    /\ newer = <<>>
    /\ relay_id = <<>>
    /\ room_ids = {}
    /\ rs_clients = EmptyMap
    /\ rs_apps = EmptyMap
    /\ gs_apps = EmptyMap
    /\ gs_sessions = EmptyMap
    /\ gs_client_to_room = EmptyMap
    /\ gs_task = "running"

SpecLocal == InitLocal /\ [][NextLoop(MaxPeerIdLocal)]_vars

(***************************************************************************)
(* transport/server.rs and transport/client.rs around the reliability      *)
(* engine: one datagram or one timer per step.                             *)
(***************************************************************************)
Saturate(age) == IF age < MaxAge THEN age + 1 ELSE MaxAge

\* send on Channel::Reliable, of at most max payloads
TransportSend(max) ==
    /\ Len(sent_log) < max
    /\ \E data \in Payloads :
        LET r == ReliableSender_send(reliable_sender, data)
        IN  /\ reliable_sender' = r.sender
            /\ data_frames' = data_frames \cup {[seq |-> r.seq, data |-> data]}
            /\ sent_log' = Append(sent_log, data)
    /\ UNCHANGED <<reliable_receiver, pending_acks, ack_frames, released>>
    /\ UNCHANGED <<dirVars, auxVars>>

\* resend_unacked, on the resend timer
ResendUnacked ==
    /\ LET r == ReliableSender_get_resends(reliable_sender)
       IN  /\ reliable_sender' = r.sender
           /\ data_frames' = data_frames \cup r.resends
    /\ UNCHANGED <<reliable_receiver, pending_acks, ack_frames, sent_log, released>>
    /\ UNCHANGED <<dirVars, auxVars>>

\* recv_events on a type-0 datagram carrying seq; the network may deliver the
\* datagram again (keep).  pending_acks holds a sequence number once: send_acks
\* sends one datagram per entry, and a second ACK datagram for a number is the
\* duplicate that RecvAck's keep already gives.
RecvData(seq) ==
    /\ recv_task = "running"
    /\ \E f \in data_frames, keep \in BOOLEAN :
        /\ f.seq = seq
        /\ LET r == ReliableReceiver_receive(reliable_receiver, f.seq, f.data)
               t == ReliableReceiver_take_all_packets(r.receiver)
               queued == {pending_acks[i] : i \in 1..Len(pending_acks)}
           IN  /\ reliable_receiver' = t.receiver
               /\ pending_acks' = pending_acks \o SelectSeq(r.acks, LAMBDA a : a \notin queued)
               /\ released' = released \o t.packets
        /\ data_frames' = IF keep THEN data_frames ELSE data_frames \ {f}
    /\ UNCHANGED <<reliable_sender, ack_frames, sent_log>>
    /\ UNCHANGED <<dirVars, auxVars>>

\* send_acks, on the ack-flush timer
SendAcks ==
    /\ recv_task = "running"
    /\ pending_acks # <<>>
    /\ ack_frames' = ack_frames \cup {pending_acks[i] : i \in 1..Len(pending_acks)}
    /\ pending_acks' = <<>>
    /\ UNCHANGED <<reliable_sender, reliable_receiver, data_frames, sent_log, released>>
    /\ UNCHANGED <<dirVars, auxVars>>

\* recv_events on a type-2 datagram carrying seq
RecvAck(seq) ==
    /\ seq \in ack_frames
    /\ \E keep \in BOOLEAN :
        ack_frames' = IF keep THEN ack_frames ELSE ack_frames \ {seq}
    /\ reliable_sender' = ReliableSender_ack_received(reliable_sender, seq)
    /\ UNCHANGED <<reliable_receiver, pending_acks, data_frames, sent_log, released>>
    /\ UNCHANGED <<dirVars, auxVars>>

\* the network loses a datagram
Lose ==
    /\ \/ \E f \in data_frames : data_frames' = data_frames \ {f} /\ ack_frames' = ack_frames
       \/ \E a \in ack_frames : ack_frames' = ack_frames \ {a} /\ data_frames' = data_frames
    /\ UNCHANGED <<reliable_sender, reliable_receiver, pending_acks, sent_log, released>>
    /\ UNCHANGED <<dirVars, auxVars>>

\* 250 ms pass
Tick ==
    /\ reliable_sender' =
          [reliable_sender EXCEPT !.last_resend_check = Saturate(@),
                                  !.sent_packets = [q \in DOMAIN @ |->
                                        [@[q] EXCEPT !.sent_at = Saturate(@)]]]
    /\ UNCHANGED <<reliable_receiver, pending_acks, data_frames, ack_frames, sent_log, released>>
    /\ UNCHANGED <<dirVars, auxVars>>

SeqNums == 0..(MaxSends - 1)

\* two fresh ClientSessions, one at each end; the relay idle
InitTransport ==
    /\ reliable_sender = ReliableSender_new
    /\ reliable_receiver = ReliableReceiver_new
    /\ pending_acks = <<>>
    /\ data_frames = {}
    /\ ack_frames = {}
    /\ sent_log = <<>>
    /\ released = <<>>
    /\ clients = EmptyMap
    /\ apps = Apps_new
    /\ connection_manager = ConnectionManager_new
    /\ pending_events = <<>>
    /\ events = <<>>
    /\ outbox = <<>>
    /\ config = [allowed_versions |-> {}, whitelist |-> {}, remote |-> FALSE]
    /\ peer_ids_used = EmptyMap
    /\ remote_check = <<>>
    /\ recv_task = "running"
    /\ sent_msg = <<>>
    /\ wire_bytes = <<>>
    /\ recv_msg = <<>>
    /\ seq_a = [hi |-> 0, lo |-> 0]
    /\ seq_b = [hi |-> 0, lo |-> 0]
    /\ newer = <<>>
    /\ relay_id = <<>>
    /\ room_ids = {}
    /\ rs_clients = EmptyMap
    /\ rs_apps = EmptyMap
    /\ gs_apps = EmptyMap
    /\ gs_sessions = EmptyMap
    /\ gs_client_to_room = EmptyMap
    /\ gs_task = "running"

NextRel(max) ==
    \/ TransportSend(max)
    \/ ResendUnacked
    \/ \E seq \in SeqNums : RecvData(seq)
    \/ SendAcks
    \/ \E seq \in SeqNums : RecvAck(seq)
    \/ Lose
    \/ Tick

SpecRel == InitTransport /\ [][NextRel(MaxSends)]_vars

\* recv_events of B on a type-0 datagram of 1 to 4 bytes: `buf.len() < 5` tests
\* the 65535-byte array and never holds, and `buf[5..len]` panics
RecvShortData ==
    /\ recv_task = "running"
    /\ recv_task' = "panicked"
    /\ UNCHANGED <<sent_msg, wire_bytes, recv_msg, seq_a, seq_b, newer>>
    /\ UNCHANGED <<relay_id, room_ids, rs_clients, rs_apps>>
    /\ UNCHANGED <<gs_apps, gs_sessions, gs_client_to_room, gs_task>>
    /\ UNCHANGED <<dirVars, relVars>>

\* recv_events of A on a type-2 datagram of 1 to 4 bytes: the same test never
\* holds, and the sequence number is read from buf[1..5], which holds zeros or
\* the bytes an earlier datagram of this call left there
RecvShortAck ==
    /\ \E seq \in SeqNums :
        reliable_sender' = ReliableSender_ack_received(reliable_sender, seq)
    /\ UNCHANGED <<reliable_receiver, pending_acks, data_frames, ack_frames, sent_log, released>>
    /\ UNCHANGED <<dirVars, auxVars>>

\* the reliable direction with datagrams shorter than a frame header arriving
SpecShort ==
    InitTransport /\ [][NextRel(MaxSendsFair) \/ RecvShortData \/ RecvShortAck]_vars

\* the timers fire forever, time passes, and a datagram that is sent again
\* and again is eventually received
SpecRelFair ==
    /\ InitTransport /\ [][NextRel(MaxSendsFair)]_vars
    /\ WF_vars(ResendUnacked)
    /\ WF_vars(SendAcks)
    /\ WF_vars(Tick)
    /\ \A seq \in SeqNums : SF_vars(RecvData(seq))
    /\ \A seq \in SeqNums : SF_vars(RecvAck(seq))

\* the sequence numbers on either side of the wrap
WrapSeqNums == {SeqModulus - 1, 0}

\* the two ClientSessions after SeqModulus - 1 payloads were sent, released and
\* acknowledged: the next sequence number is the last before the wrap
InitWrap ==
    /\ reliable_sender = [ReliableSender_new EXCEPT !.next_sequence_num = SeqModulus - 1]
    /\ reliable_receiver = [ReliableReceiver_new EXCEPT !.highest_seq_received = SeqModulus - 2,
                                                        !.expected_next = SeqModulus - 1]
    /\ pending_acks = <<>>
    /\ data_frames = {}
    /\ ack_frames = {}
    /\ sent_log = [i \in 1..(SeqModulus - 1) |-> "x"]
    /\ released = [i \in 1..(SeqModulus - 1) |-> "x"]
    /\ recv_task = "running"
    /\ sent_msg = <<>>
    /\ wire_bytes = <<>>
    /\ recv_msg = <<>>
    /\ seq_a = [hi |-> 0, lo |-> 0]
    /\ seq_b = [hi |-> 0, lo |-> 0]
    /\ newer = <<>>
    /\ relay_id = <<>>
    /\ room_ids = {}
    /\ rs_clients = EmptyMap
    /\ rs_apps = EmptyMap
    /\ gs_apps = EmptyMap
    /\ gs_sessions = EmptyMap
    /\ gs_client_to_room = EmptyMap
    /\ gs_task = "running"
    /\ clients = EmptyMap
    /\ apps = Apps_new
    /\ connection_manager = ConnectionManager_new
    /\ pending_events = <<>>
    /\ events = <<>>
    /\ outbox = <<>>
    /\ config = [allowed_versions |-> {}, whitelist |-> {}, remote |-> FALSE]
    /\ peer_ids_used = EmptyMap
    /\ remote_check = <<>>

\* the reliable direction across the wrap of the sequence numbers, two more
\* payloads being sent
SpecWrap ==
    InitWrap /\ [][\/ TransportSend(SeqModulus + 1)
                   \/ ResendUnacked
                   \/ \E seq \in WrapSeqNums : RecvData(seq)
                   \/ SendAcks
                   \/ \E seq \in WrapSeqNums : RecvAck(seq)
                   \/ Lose
                   \/ Tick]_vars

(***************************************************************************)
(* Two sequence numbers compared with is_newer_than, both ways.            *)
(***************************************************************************)
\* two u32 around 0, 2^31 and 2^32 - 1; everything else idle
InitSeq ==
    /\ LET U32s == {[hi |-> h, lo |-> l] : h \in {0, 1, 32767, 32768, 65535},
                                           l \in {0, 1, 65535}}
       IN  seq_a \in U32s /\ seq_b \in U32s
    /\ newer = <<>>
    /\ relay_id = <<>>
    /\ room_ids = {}
    /\ rs_clients = EmptyMap
    /\ rs_apps = EmptyMap
    /\ gs_apps = EmptyMap
    /\ gs_sessions = EmptyMap
    /\ gs_client_to_room = EmptyMap
    /\ gs_task = "running"
    /\ sent_msg = <<>>
    /\ wire_bytes = <<>>
    /\ recv_msg = <<>>
    /\ recv_task = "running"
    /\ reliable_sender = ReliableSender_new
    /\ reliable_receiver = ReliableReceiver_new
    /\ pending_acks = <<>>
    /\ data_frames = {}
    /\ ack_frames = {}
    /\ sent_log = <<>>
    /\ released = <<>>
    /\ clients = EmptyMap
    /\ apps = Apps_new
    /\ connection_manager = ConnectionManager_new
    /\ pending_events = <<>>
    /\ events = <<>>
    /\ outbox = <<>>
    /\ config = [allowed_versions |-> {}, whitelist |-> {}, remote |-> FALSE]
    /\ peer_ids_used = EmptyMap
    /\ remote_check = <<>>

\* seq_a.is_newer_than(seq_b) and seq_b.is_newer_than(seq_a)
CompareSeq ==
    /\ newer = <<>>
    /\ newer' = <<SequenceNumber_is_newer_than_u32(seq_a, seq_b),
                  SequenceNumber_is_newer_than_u32(seq_b, seq_a)>>
    /\ UNCHANGED <<recv_task, sent_msg, wire_bytes, recv_msg, seq_a, seq_b>>
    /\ UNCHANGED <<relay_id, room_ids, rs_clients, rs_apps>>
    /\ UNCHANGED <<gs_apps, gs_sessions, gs_client_to_room, gs_task>>
    /\ UNCHANGED <<dirVars, relVars>>

SpecSeq == InitSeq /\ [][CompareSeq]_vars

(***************************************************************************)
(* relay/server.rs: the RelayServer that keeps its rooms by the String id  *)
(* it builds from config.relay_id and a code of RoomIds (relay/room.rs).   *)
(* Its App is a map of rooms by id; the transport is left out.             *)
(***************************************************************************)
\* clients that connect to this RelayServer
MaxRsClients == 2

\* RelayServer::new, with the relay_id of the configuration; everything else idle
InitRoomIds ==
    /\ relay_id \in {<<>>, <<"R">>}
    /\ room_ids = {}
    /\ rs_clients = EmptyMap
    /\ rs_apps = EmptyMap
    /\ seq_a = [hi |-> 0, lo |-> 0]
    /\ seq_b = [hi |-> 0, lo |-> 0]
    /\ newer = <<>>
    /\ gs_apps = EmptyMap
    /\ gs_sessions = EmptyMap
    /\ gs_client_to_room = EmptyMap
    /\ gs_task = "running"
    /\ sent_msg = <<>>
    /\ wire_bytes = <<>>
    /\ recv_msg = <<>>
    /\ recv_task = "running"
    /\ reliable_sender = ReliableSender_new
    /\ reliable_receiver = ReliableReceiver_new
    /\ pending_acks = <<>>
    /\ data_frames = {}
    /\ ack_frames = {}
    /\ sent_log = <<>>
    /\ released = <<>>
    /\ clients = EmptyMap
    /\ apps = Apps_new
    /\ connection_manager = ConnectionManager_new
    /\ pending_events = <<>>
    /\ events = <<>>
    /\ outbox = <<>>
    /\ config = [allowed_versions |-> {}, whitelist |-> {}, remote |-> FALSE]
    /\ peer_ids_used = EmptyMap
    /\ remote_check = <<>>

\* handle_event on ClientConnected: handle_connect
RsConnect ==
    /\ \E client_id \in (1..MaxRsClients) \ DOMAIN rs_clients :
          rs_clients' = MapInsert(rs_clients, client_id, Connected)
    /\ UNCHANGED <<relay_id, room_ids, rs_apps>>
    /\ UNCHANGED <<recv_task, sent_msg, wire_bytes, recv_msg, seq_a, seq_b, newer>>
    /\ UNCHANGED <<gs_apps, gs_sessions, gs_client_to_room, gs_task>>
    /\ UNCHANGED <<dirVars, relVars>>

\* handle_packet on Authenticate from a Connected client: authenticate_client,
\* with allowed the result of is_version_allowed
RsAuthenticate ==
    /\ \E sender_id \in DOMAIN rs_clients, app_id \in Tokens, allowed \in BOOLEAN :
          /\ rs_clients[sender_id].state = "Connected"
          /\ IF ~allowed
             THEN UNCHANGED <<rs_clients, rs_apps>>
             ELSE /\ rs_clients' = [rs_clients EXCEPT ![sender_id] = Authenticated(app_id)]
                  /\ rs_apps' = IF app_id \in DOMAIN rs_apps
                                THEN rs_apps
                                ELSE MapInsert(rs_apps, app_id, EmptyMap)
    /\ UNCHANGED <<relay_id, room_ids>>
    /\ UNCHANGED <<recv_task, sent_msg, wire_bytes, recv_msg, seq_a, seq_b, newer>>
    /\ UNCHANGED <<gs_apps, gs_sessions, gs_client_to_room, gs_task>>
    /\ UNCHANGED <<dirVars, relVars>>

\* handle_packet on CreateRoom from an Authenticated client: create_room, with
\* code what room_ids.generate() returns, a string of ID_LENGTH characters
\* (here 2, of "A" and "B") that used.insert accepted
RsCreateRoom ==
    /\ \E sender_id \in DOMAIN rs_clients, code \in [1..2 -> {"A", "B"}] \ room_ids :
          /\ rs_clients[sender_id].state = "Authenticated"
          /\ rs_clients[sender_id].app_id \in DOMAIN rs_apps
          /\ LET app_id == rs_clients[sender_id].app_id
                 room_id == relay_id \o code
                 room == [id |-> room_id, host_id |-> sender_id,
                          client_to_godot |-> MapInsert(EmptyMap, sender_id, 1),
                          next_godot_id |-> 2]
             IN  /\ room_ids' = room_ids \cup {code}
                 /\ rs_clients' = [rs_clients EXCEPT ![sender_id] = InRoom(app_id, room_id)]
                 /\ rs_apps' = [rs_apps EXCEPT ![app_id] = MapInsert(@, room_id, room)]
    /\ UNCHANGED relay_id
    /\ UNCHANGED <<recv_task, sent_msg, wire_bytes, recv_msg, seq_a, seq_b, newer>>
    /\ UNCHANGED <<gs_apps, gs_sessions, gs_client_to_room, gs_task>>
    /\ UNCHANGED <<dirVars, relVars>>

\* handle_event on ClientDisconnected: handle_disconnect, and for a client
\* InRoom handle_room_disconnect with handle_host_disconnect (remove_room:
\* room_ids.free(&room_id), app.remove_room(&room_id); then every other peer
\* is removed from clients) or handle_peer_disconnect (room.remove_peer)
RsDisconnect ==
    /\ \E client_id \in DOMAIN rs_clients :
          LET client == rs_clients[client_id]
              gone == MapRemove(rs_clients, client_id)
          IN  IF client.state # "InRoom"
              THEN /\ rs_clients' = gone
                   /\ UNCHANGED <<room_ids, rs_apps>>
              ELSE IF \/ client.app_id \notin DOMAIN rs_apps
                      \/ client.room_id \notin DOMAIN rs_apps[client.app_id]
                      \/ client_id \notin DOMAIN rs_apps[client.app_id][client.room_id].client_to_godot
              THEN /\ rs_clients' = gone
                   /\ UNCHANGED <<room_ids, rs_apps>>
              ELSE LET room == rs_apps[client.app_id][client.room_id]
                       other_peers == (DOMAIN room.client_to_godot) \ {client_id}
                   IN  IF room.host_id = client_id
                       THEN /\ room_ids' = room_ids \ {client.room_id}
                            /\ rs_apps' = [rs_apps EXCEPT ![client.app_id] =
                                              MapRemove(@, client.room_id)]
                            /\ rs_clients' = [c \in (DOMAIN gone) \ other_peers |-> gone[c]]
                       ELSE /\ rs_apps' = [rs_apps EXCEPT
                                              ![client.app_id][client.room_id].client_to_godot =
                                                  MapRemove(@, client_id)]
                            /\ rs_clients' = gone
                            /\ UNCHANGED room_ids
    /\ UNCHANGED relay_id
    /\ UNCHANGED <<recv_task, sent_msg, wire_bytes, recv_msg, seq_a, seq_b, newer>>
    /\ UNCHANGED <<gs_apps, gs_sessions, gs_client_to_room, gs_task>>
    /\ UNCHANGED <<dirVars, relVars>>

SpecRoomIds ==
    InitRoomIds /\ [][RsConnect \/ RsAuthenticate \/ RsCreateRoom \/ RsDisconnect]_vars

(***************************************************************************)
(* game/server.rs: the GameServer, with game/app.rs and game/room.rs.  A   *)
(* client id is that of a transport session; config.relay_id is None, so a *)
(* room's id is its creator's id as a string.  The registry and what is    *)
(* sent are left out.                                                      *)
(***************************************************************************)
\* clients that talk to this GameServer
MaxGsClients == 2

\* the peer ids a Room of the GameServer hands out
MaxGsPeerId == 2

\* GameServer::new; everything else idle
InitGame ==
    /\ gs_apps = EmptyMap
    /\ gs_sessions = EmptyMap
    /\ gs_client_to_room = EmptyMap
    /\ gs_task = "running"
    /\ seq_a = [hi |-> 0, lo |-> 0]
    /\ seq_b = [hi |-> 0, lo |-> 0]
    /\ newer = <<>>
    /\ relay_id = <<>>
    /\ room_ids = {}
    /\ rs_clients = EmptyMap
    /\ rs_apps = EmptyMap
    /\ sent_msg = <<>>
    /\ wire_bytes = <<>>
    /\ recv_msg = <<>>
    /\ recv_task = "running"
    /\ reliable_sender = ReliableSender_new
    /\ reliable_receiver = ReliableReceiver_new
    /\ pending_acks = <<>>
    /\ data_frames = {}
    /\ ack_frames = {}
    /\ sent_log = <<>>
    /\ released = <<>>
    /\ clients = EmptyMap
    /\ apps = Apps_new
    /\ connection_manager = ConnectionManager_new
    /\ pending_events = <<>>
    /\ events = <<>>
    /\ outbox = <<>>
    /\ config = [allowed_versions |-> {}, whitelist |-> {}, remote |-> FALSE]
    /\ peer_ids_used = EmptyMap
    /\ remote_check = <<>>

\* handle_packet on Authenticate: authenticate_client, with allowed the result
\* of the whitelist and version checks
GsAuthenticate ==
    /\ gs_task = "running"
    /\ \E sender_id \in 1..MaxGsClients, app_id \in Tokens, allowed \in BOOLEAN :
          IF ~allowed
          THEN UNCHANGED <<gs_sessions, gs_apps>>
          ELSE /\ gs_sessions' = MapInsert(gs_sessions, sender_id, app_id)
               /\ gs_apps' = IF app_id \in DOMAIN gs_apps
                             THEN gs_apps
                             ELSE MapInsert(gs_apps, app_id, EmptyMap)
    /\ UNCHANGED <<gs_client_to_room, gs_task>>
    /\ UNCHANGED <<recv_task, sent_msg, wire_bytes, recv_msg, seq_a, seq_b, newer>>
    /\ UNCHANGED <<relay_id, room_ids, rs_clients, rs_apps>>
    /\ UNCHANGED <<dirVars, relVars>>

\* handle_packet on CreateRoom from a client with a session: create_room;
\* `.expect("App exists")` panics in the task of run when the App is missing
GsCreateRoom ==
    /\ gs_task = "running"
    /\ \E sender_id \in DOMAIN gs_sessions :
          LET app_id == gs_sessions[sender_id]
              room_id == U64ToString(sender_id)
              room == [id |-> room_id, host_id |-> sender_id,
                       client_to_godot |-> MapInsert(EmptyMap, sender_id, 1),
                       next_godot_id |-> 2]
          IN  IF app_id \notin DOMAIN gs_apps
              THEN /\ gs_task' = "panicked"
                   /\ UNCHANGED <<gs_apps, gs_client_to_room>>
              ELSE /\ gs_apps' = [gs_apps EXCEPT ![app_id] = MapInsert(@, room_id, room)]
                   /\ gs_client_to_room' =
                          MapInsert(gs_client_to_room, sender_id, <<app_id, room_id>>)
                   /\ UNCHANGED gs_task
    /\ UNCHANGED gs_sessions
    /\ UNCHANGED <<recv_task, sent_msg, wire_bytes, recv_msg, seq_a, seq_b, newer>>
    /\ UNCHANGED <<relay_id, room_ids, rs_clients, rs_apps>>
    /\ UNCHANGED <<dirVars, relVars>>

\* handle_packet on JoinRoom from a client with a session: join_room
GsJoinRoom ==
    /\ gs_task = "running"
    /\ \E sender_id \in DOMAIN gs_sessions, host \in 1..MaxGsClients :
          LET app_id == gs_sessions[sender_id]
              room_id == U64ToString(host)
          IN  IF app_id \notin DOMAIN gs_apps
              THEN /\ gs_task' = "panicked"
                   /\ UNCHANGED <<gs_apps, gs_client_to_room>>
              ELSE IF room_id \notin DOMAIN gs_apps[app_id]
              THEN UNCHANGED <<gs_apps, gs_client_to_room, gs_task>>
              ELSE /\ gs_apps[app_id][room_id].next_godot_id <= MaxGsPeerId
                   /\ gs_apps' = [gs_apps EXCEPT ![app_id][room_id] =
                                     [@ EXCEPT !.client_to_godot =
                                                   MapInsert(@, sender_id, gs_apps[app_id][room_id].next_godot_id),
                                               !.next_godot_id = @ + 1]]
                   /\ gs_client_to_room' =
                          MapInsert(gs_client_to_room, sender_id, <<app_id, room_id>>)
                   /\ UNCHANGED gs_task
    /\ UNCHANGED gs_sessions
    /\ UNCHANGED <<recv_task, sent_msg, wire_bytes, recv_msg, seq_a, seq_b, newer>>
    /\ UNCHANGED <<relay_id, room_ids, rs_clients, rs_apps>>
    /\ UNCHANGED <<dirVars, relVars>>

\* handle_event on ClientDisconnected: handle_disconnect, with
\* handle_host_disconnect or handle_peer_disconnect, and at its end the
\* removal of the App whose rooms have become empty
GsDisconnect ==
    /\ gs_task = "running"
    /\ \E client_id \in 1..MaxGsClients :
          LET sessions1 == MapRemove(gs_sessions, client_id)
              c2r1 == MapRemove(gs_client_to_room, client_id)
          IN  IF client_id \notin DOMAIN gs_client_to_room
              THEN /\ gs_sessions' = sessions1
                   /\ UNCHANGED <<gs_apps, gs_client_to_room>>
              ELSE LET app_id == gs_client_to_room[client_id][1]
                       room_id == gs_client_to_room[client_id][2]
                   IN  IF \/ app_id \notin DOMAIN gs_apps
                          \/ room_id \notin DOMAIN gs_apps[app_id]
                          \/ client_id \notin DOMAIN gs_apps[app_id][room_id].client_to_godot
                       THEN /\ gs_sessions' = sessions1
                            /\ gs_client_to_room' = c2r1
                            /\ UNCHANGED gs_apps
                       ELSE LET room == gs_apps[app_id][room_id]
                                is_host == room.host_id = client_id
                                other_peers == (DOMAIN room.client_to_godot) \ {client_id}
                                left == MapRemove(room.client_to_godot, client_id)
                                rooms1 == IF is_host \/ left = EmptyMap
                                          THEN MapRemove(gs_apps[app_id], room_id)
                                          ELSE [gs_apps[app_id] EXCEPT
                                                   ![room_id].client_to_godot = left]
                                kicked == IF is_host THEN other_peers ELSE {}
                            IN  /\ gs_sessions' = [c \in (DOMAIN sessions1) \ kicked |-> sessions1[c]]
                                /\ gs_client_to_room' = [c \in (DOMAIN c2r1) \ kicked |-> c2r1[c]]
                                /\ gs_apps' = IF rooms1 = EmptyMap
                                              THEN MapRemove(gs_apps, app_id)
                                              ELSE [gs_apps EXCEPT ![app_id] = rooms1]
    /\ UNCHANGED gs_task
    /\ UNCHANGED <<recv_task, sent_msg, wire_bytes, recv_msg, seq_a, seq_b, newer>>
    /\ UNCHANGED <<relay_id, room_ids, rs_clients, rs_apps>>
    /\ UNCHANGED <<dirVars, relVars>>

SpecGame ==
    InitGame /\ [][GsAuthenticate \/ GsCreateRoom \/ GsJoinRoom \/ GsDisconnect]_vars

(***************************************************************************)
(* One packet through the codec: to_bytes on the sending side, from_bytes  *)
(* on what arrived.                                                        *)
(***************************************************************************)
\* a packet is about to be sent; the relay and the transport idle
InitCodec ==
    /\ sent_msg \in {<<m>> : m \in CodecPackets}
    /\ wire_bytes = <<>>
    /\ recv_msg = <<>>
    /\ seq_a = [hi |-> 0, lo |-> 0]
    /\ seq_b = [hi |-> 0, lo |-> 0]
    /\ newer = <<>>
    /\ relay_id = <<>>
    /\ room_ids = {}
    /\ rs_clients = EmptyMap
    /\ rs_apps = EmptyMap
    /\ gs_apps = EmptyMap
    /\ gs_sessions = EmptyMap
    /\ gs_client_to_room = EmptyMap
    /\ gs_task = "running"
    /\ recv_task = "running"
    /\ reliable_sender = ReliableSender_new
    /\ reliable_receiver = ReliableReceiver_new
    /\ pending_acks = <<>>
    /\ data_frames = {}
    /\ ack_frames = {}
    /\ sent_log = <<>>
    /\ released = <<>>
    /\ clients = EmptyMap
    /\ apps = Apps_new
    /\ connection_manager = ConnectionManager_new
    /\ pending_events = <<>>
    /\ events = <<>>
    /\ outbox = <<>>
    /\ config = [allowed_versions |-> {}, whitelist |-> {}, remote |-> FALSE]
    /\ peer_ids_used = EmptyMap
    /\ remote_check = <<>>

ToBytes ==
    /\ sent_msg # <<>>
    /\ wire_bytes = <<>>
    /\ wire_bytes' = PacketType_to_bytes(sent_msg[1])
    /\ UNCHANGED <<recv_task, sent_msg, recv_msg, seq_a, seq_b, newer>>
    /\ UNCHANGED <<relay_id, room_ids, rs_clients, rs_apps>>
    /\ UNCHANGED <<gs_apps, gs_sessions, gs_client_to_room, gs_task>>
    /\ UNCHANGED <<dirVars, relVars>>

FromBytes ==
    /\ wire_bytes # <<>>
    /\ recv_msg = <<>>
    /\ recv_msg' = <<PacketType_from_bytes(wire_bytes)>>
    /\ UNCHANGED <<recv_task, sent_msg, wire_bytes, seq_a, seq_b, newer>>
    /\ UNCHANGED <<relay_id, room_ids, rs_clients, rs_apps>>
    /\ UNCHANGED <<gs_apps, gs_sessions, gs_client_to_room, gs_task>>
    /\ UNCHANGED <<dirVars, relVars>>

SpecCodec == InitCodec /\ [][ToBytes \/ FromBytes]_vars

\* a frame has arrived in which a string or vector length prefix is negative
\* or larger than the number of bytes after it, for each opcode that carries
\* a string or a vector, with the fields before the prefix well-formed
InitMalformed ==
    /\ LET bad == {push_i32(f[1]) \o f[2] :
                      f \in {g \in {-1, -2147483647 - 1, 1, 5, 2147483647}
                                      \X {<<>>, <<65>>, <<65, 66>>} :
                                g[1] < 0 \/ Len(g[2]) < g[1]}}
           strs == {push_string(<<>>), push_string(<<97>>)}
           two == {"Authenticate", "ReqJoin", "UpdateRoom"}
       IN  wire_bytes \in
              {<<Opcode(op)>> \o b : op \in two \cup {"ConnectedToRoom", "GetRooms"}, b \in bad}
              \cup {<<Opcode(op)>> \o s \o b : op \in two, s \in strs, b \in bad}
              \cup {<<Opcode("CreateRoom")>> \o push_bool(p) \o b : p \in BOOLEAN, b \in bad}
              \cup {<<Opcode(op)>> \o push_u64(1) \o b : op \in {"PeerJoinAttempt", "JoinRes"},
                                                         b \in bad}
              \cup {<<Opcode("Error")>> \o push_i32(401) \o b : b \in bad}
              \cup {<<Opcode("GetRooms")>> \o push_i32(1) \o b : b \in bad}
              \cup {<<Opcode("GetRooms")>> \o push_i32(1) \o s \o b : s \in strs, b \in bad}
    /\ sent_msg = <<>>
    /\ recv_msg = <<>>
    /\ seq_a = [hi |-> 0, lo |-> 0]
    /\ seq_b = [hi |-> 0, lo |-> 0]
    /\ newer = <<>>
    /\ relay_id = <<>>
    /\ room_ids = {}
    /\ rs_clients = EmptyMap
    /\ rs_apps = EmptyMap
    /\ gs_apps = EmptyMap
    /\ gs_sessions = EmptyMap
    /\ gs_client_to_room = EmptyMap
    /\ gs_task = "running"
    /\ recv_task = "running"
    /\ reliable_sender = ReliableSender_new
    /\ reliable_receiver = ReliableReceiver_new
    /\ pending_acks = <<>>
    /\ data_frames = {}
    /\ ack_frames = {}
    /\ sent_log = <<>>
    /\ released = <<>>
    /\ clients = EmptyMap
    /\ apps = Apps_new
    /\ connection_manager = ConnectionManager_new
    /\ pending_events = <<>>
    /\ events = <<>>
    /\ outbox = <<>>
    /\ config = [allowed_versions |-> {}, whitelist |-> {}, remote |-> FALSE]
    /\ peer_ids_used = EmptyMap
    /\ remote_check = <<>>

SpecMalformed == InitMalformed /\ [][FromBytes]_vars

(***************************************************************************)
(* The tenancy directory.                                                  *)
(***************************************************************************)
\* the live rooms that list client c among their members
RoomsOf(c) == {k \in LiveRooms(apps) : c \in Room_get_clients(RoomAt(apps, k))}

\* C3: a ClientId is a member of at most one live Room across all Apps.
C3_AtMostOneRoom == \A c \in ClientIds : Cardinality(RoomsOf(c)) <= 1

\* C4: in every live Room client_to_godot and godot_to_client are inverses of
\* each other, of the same size, and both contain the room's host.
C4_PeerMapsInverse ==
    \A k \in LiveRooms(apps) :
        LET room == RoomAt(apps, k)
            c2g == room.client_to_godot
            g2c == room.godot_to_client
        IN  /\ \A c \in DOMAIN c2g : c2g[c] \in DOMAIN g2c /\ g2c[c2g[c]] = c
            /\ \A p \in DOMAIN g2c : g2c[p] \in DOMAIN c2g /\ c2g[g2c[p]] = p
            /\ Cardinality(DOMAIN c2g) = Cardinality(DOMAIN g2c)
            /\ room.host_id \in DOMAIN c2g
            /\ room.host_id \in MapValues(g2c)

\* C5: the host of every live Room is a member of the room's peer maps and is
\* in the client directory: once the host's ClientDisconnected has been
\* handled the Room is gone.
C5_HostPresent ==
    \A k \in LiveRooms(apps) :
        LET room == RoomAt(apps, k)
        IN  /\ room.host_id \in DOMAIN room.client_to_godot
            /\ room.host_id \in MapValues(room.godot_to_client)
            /\ room.host_id \in DOMAIN clients

\* C6: the app of every Authenticated or InRoom client exists, and the room of
\* every InRoom client is a live Room of that App with the client a member.
C6_ClientsReferToLive ==
    \A c \in DOMAIN clients :
        /\ clients[c].state \in {"Authenticated", "InRoom"} =>
              clients[c].app_id \in DOMAIN apps.by_id
        /\ clients[c].state = "InRoom" =>
              /\ <<clients[c].app_id, clients[c].room_id>> \in LiveRooms(apps)
              /\ c \in Room_get_clients(RoomAt(apps, <<clients[c].app_id, clients[c].room_id>>))

\* a client is InRoom as the guest of a room, its only room, whose host is
\* InRoom too
C6_Witness ==
    \E c \in DOMAIN clients :
        /\ clients[c].state = "InRoom"
        /\ Cardinality(RoomsOf(c)) = 1
        /\ LET host_id == RoomAt(apps, <<clients[c].app_id, clients[c].room_id>>).host_id
           IN  /\ host_id # c
               /\ host_id \in DOMAIN clients
               /\ clients[host_id] = clients[c]

\* C7: no two live Rooms have the same join_code, in one App or in two.
C7_JoinCodesUnique ==
    \A k1, k2 \in LiveRooms(apps) :
        k1 # k2 => RoomAt(apps, k1).join_code # RoomAt(apps, k2).join_code

\* the opcodes handle_packet acts on, by the state of the sender
AllowedOps(state) ==
    CASE state = "Connected" -> {"Authenticate"}
      [] state = "Authenticated" -> {"CreateRoom", "ReqRooms", "ReqJoin"}
      [] state = "InRoom" -> {"UpdateRoom", "JoinRes", "GameData"}

\* C8: whatever packet the PacketReceived event about to be handled carries, if
\* its sender is not in the client directory or its opcode is not allowed in
\* the sender's state, handling it leaves the clients, their states, the apps
\* and the rooms with their peer maps and metadata as they are.
C8_ForbiddenPacketIsNoOp ==
    (events # <<>> /\ Head(events).type = "PacketReceived") =>
        \A data \in Datas(Head(events)) :
            \A nd \in Draws(Head(events), data) :
                LET from == Head(events).client_id
                    w == handle_event(World, config, Head(events), data, nd)
                IN  (from \notin DOMAIN clients \/ data.op \notin AllowedOps(clients[from].state))
                        => (w.clients = clients /\ w.apps = apps)

\* the event about to be handled is a packet of a client that has left the
\* directory, while a room is live and another client is InRoom
C8_Witness ==
    /\ events # <<>>
    /\ Head(events).type = "PacketReceived"
    /\ Head(events).client_id \notin DOMAIN clients
    /\ LiveRooms(apps) # {}
    /\ \E c \in DOMAIN clients : clients[c].state = "InRoom"

\* what the step that handles the host's ClientDisconnected(h) leaves behind
HostDisconnectHandled(h) ==
    LET a == clients[h].app_id
        r == clients[h].room_id
        room == RoomAt(apps, <<a, r>>)
    IN  /\ r \notin DOMAIN apps'.by_id[a].rooms.by_id
        /\ room.join_code \notin apps'.by_id[a].rooms.join_codes
        /\ room.join_code \notin DOMAIN apps'.by_id[a].rooms.jc_to_id
        /\ \A m \in Room_get_clients(room) \ {h} :
              /\ \E i \in DOMAIN outbox' : outbox'[i].to = m /\ outbox'[i].packet = ForceDisconnect
              /\ m \notin DOMAIN clients'
              /\ m \notin DOMAIN connection_manager'.id_to_session
              /\ m \notin MapValues(connection_manager'.addr_to_id)
        /\ \A c \in DOMAIN clients' : clients'[c] # InRoom(a, r)

\* C9: the step that handles ClientDisconnected for a client that is InRoom
\* and host of that room removes the room, releases its join code, sends
\* every other member ForceDisconnect and removes it from the client
\* directory and the session maps; and no step leaves a client InRoom for a
\* room that is not live.
C9_HostDisconnect ==
    [][/\ \A h \in ClientIds :
             (/\ events # <<>>
              /\ Head(events) = ClientDisconnected(h)
              /\ h \in DOMAIN clients
              /\ clients[h].state = "InRoom"
              /\ <<clients[h].app_id, clients[h].room_id>> \in LiveRooms(apps)
              /\ RoomAt(apps, <<clients[h].app_id, clients[h].room_id>>).host_id = h)
                 => HostDisconnectHandled(h)
       /\ \A c \in DOMAIN clients' :
             clients'[c].state = "InRoom" =>
                 <<clients'[c].app_id, clients'[c].room_id>> \in LiveRooms(apps')]_vars

\* a host's disconnect has just kicked a guest: the handling sent
\* ForceDisconnect only, to a client that is gone, and a room is gone
C9_Witness ==
    /\ outbox # <<>>
    /\ outbox[1].packet = ForceDisconnect
    /\ outbox[1].to \notin DOMAIN clients
    /\ \E a \in DOMAIN apps.by_id :
          apps.by_id[a].rooms.next_id > Cardinality(DOMAIN apps.by_id[a].rooms.by_id)

\* C10: whatever JoinRes(target, allowed = true) the packet about to be handled
\* carries, when it comes from the host of a live room: if target is in the
\* directory, handling it adds target to the host's room under a peer ID the
\* room has never handed out, makes target InRoom of the host's app and room,
\* and sends target ConnectedToRoom and the host PeerJoinedRoom with that peer
\* ID; if target is not in the directory, clients and rooms stay as they are.
C10_JoinResAccepted ==
    (/\ events # <<>>
     /\ Head(events).type = "PacketReceived"
     /\ Head(events).client_id \in DOMAIN clients
     /\ clients[Head(events).client_id].state = "InRoom"
     /\ <<clients[Head(events).client_id].app_id, clients[Head(events).client_id].room_id>>
            \in LiveRooms(apps)) =>
        LET h == Head(events).client_id
            a == clients[h].app_id
            r == clients[h].room_id
        IN  RoomAt(apps, <<a, r>>).host_id = h =>
            \A data \in {d \in Datas(Head(events)) : d.op = "JoinRes" /\ d.allowed} :
                \A nd \in Draws(Head(events), data) :
                    LET w == handle_event(World, config, Head(events), data, nd)
                        t == data.target_id
                    IN  IF t \in DOMAIN clients
                        THEN LET room == RoomAt(w.apps, <<a, r>>)
                             IN  /\ t \in DOMAIN room.client_to_godot
                                 /\ room.client_to_godot[t] \notin peer_ids_used[<<a, r>>]
                                 /\ room.godot_to_client[room.client_to_godot[t]] = t
                                 /\ w.clients[t] = InRoom(a, r)
                                 /\ \E i \in DOMAIN w.out :
                                       /\ w.out[i].to = t
                                       /\ w.out[i].packet.op = "ConnectedToRoom"
                                       /\ w.out[i].packet.peer_id = room.client_to_godot[t]
                                 /\ \E i \in DOMAIN w.out :
                                       /\ w.out[i].to = h
                                       /\ w.out[i].packet = PeerJoinedRoom(room.client_to_godot[t])
                        ELSE w.clients = clients /\ w.apps = apps

\* a JoinRes of a host has just been handled: the guest was sent
\* ConnectedToRoom and the host PeerJoinedRoom with the guest's new peer ID
C10_Witness ==
    /\ Len(outbox) = 2
    /\ outbox[1].packet.op = "ConnectedToRoom"
    /\ outbox[2].packet.op = "PeerJoinedRoom"
    /\ outbox[1].to # outbox[2].to
    /\ outbox[1].to \in DOMAIN clients
    /\ clients[outbox[1].to].state = "InRoom"
    /\ outbox[2].packet.peer_id = outbox[1].packet.peer_id
    /\ LET k == <<clients[outbox[1].to].app_id, clients[outbox[1].to].room_id>>
       IN  /\ RoomAt(apps, k).host_id = outbox[2].to
           /\ RoomAt(apps, k).client_to_godot[outbox[1].to] = outbox[1].packet.peer_id

\* the live rooms of App a whose join code is jc
RoomsByCode(a, jc) ==
    {k \in LiveRooms(apps) : k[1] = a /\ RoomAt(apps, k).join_code = jc}

\* C11: whatever ReqJoin the packet about to be handled carries, when its
\* sender is Authenticated: the sender is a member of no room, handling it
\* leaves clients and apps as they are, and sends one packet, PeerJoinAttempt
\* with the sender's ClientId and the metadata to the host of the room of the
\* sender's App with that join code, or an Error to the sender when there is no
\* such room.  Whatever JoinRes(target, allowed = false) it carries, when its
\* sender is InRoom: handling it leaves clients and apps as they are and sends
\* one packet, Error(401, "Room host denied entry") to target.
C11_JoinRequestAndDenialChangeNothing ==
    (/\ events # <<>>
     /\ Head(events).type = "PacketReceived"
     /\ Head(events).client_id \in DOMAIN clients) =>
        LET s == Head(events).client_id
        IN  /\ clients[s].state = "Authenticated" =>
                /\ RoomsOf(s) = {}
                /\ \A data \in {d \in Datas(Head(events)) : d.op = "ReqJoin"} :
                    \A nd \in Draws(Head(events), data) :
                        LET w == handle_event(World, config, Head(events), data, nd)
                            found == RoomsByCode(clients[s].app_id, data.room_id)
                        IN  /\ w.clients = clients
                            /\ w.apps = apps
                            /\ w.cm = connection_manager
                            /\ Len(w.out) = 1
                            /\ IF found = {}
                               THEN /\ w.out[1].to = s
                                    /\ w.out[1].packet.op = "Error"
                               ELSE /\ \E k \in found : w.out[1].to = RoomAt(apps, k).host_id
                                    /\ w.out[1].packet = PeerJoinAttempt(s, data.metadata)
            /\ clients[s].state = "InRoom" =>
                \A data \in {d \in Datas(Head(events)) : d.op = "JoinRes" /\ ~d.allowed} :
                    \A nd \in Draws(Head(events), data) :
                        LET w == handle_event(World, config, Head(events), data, nd)
                        IN  /\ w.clients = clients
                            /\ w.apps = apps
                            /\ w.cm = connection_manager
                            /\ Len(w.out) = 1
                            /\ w.out[1].to = data.target_id
                            /\ w.out[1].packet = Error(401, <<"Room host denied entry">>)
                            /\ w.out[1].channel = "Reliable"

\* a denying JoinRes has just been handled: its target, who had asked to join,
\* was sent the Error, is still Authenticated and is a member of no room
C11_Witness ==
    /\ Len(outbox) = 1
    /\ outbox[1].packet = Error(401, <<"Room host denied entry">>)
    /\ outbox[1].written
    /\ outbox[1].to \in DOMAIN clients
    /\ clients[outbox[1].to].state = "Authenticated"
    /\ RoomsOf(outbox[1].to) = {}
    /\ \E k \in LiveRooms(apps) : k[1] = clients[outbox[1].to].app_id

\* C12: whatever GameData(target_peer, blob) the packet about to be handled
\* carries, when its sender is InRoom: handling it leaves clients, apps and
\* sessions as they are; if target_peer is mapped in the sender's room, one
\* packet is sent, to the client target_peer maps to there, which is
\* GameData{from_peer = the sender's peer ID in that room, data = blob} on the
\* channel of the event, and a client it is written to is a member of that
\* room; if target_peer is not mapped there, nothing is sent.
C12_GameDataRouted ==
    (/\ events # <<>>
     /\ Head(events).type = "PacketReceived"
     /\ Head(events).client_id \in DOMAIN clients
     /\ clients[Head(events).client_id].state = "InRoom") =>
        LET s == Head(events).client_id
            room == RoomAt(apps, <<clients[s].app_id, clients[s].room_id>>)
        IN  \A data \in {d \in Datas(Head(events)) : d.op = "GameData"} :
                \A nd \in Draws(Head(events), data) :
                    LET w == handle_event(World, config, Head(events), data, nd)
                    IN  /\ w.clients = clients
                        /\ w.apps = apps
                        /\ w.cm = connection_manager
                        /\ IF data.from_peer \in DOMAIN room.godot_to_client
                           THEN /\ Len(w.out) = 1
                                /\ w.out[1].to = room.godot_to_client[data.from_peer]
                                /\ w.out[1].packet = GameData(room.client_to_godot[s], data.data)
                                /\ w.out[1].channel = Head(events).channel
                                /\ w.out[1].written => w.out[1].to \in Room_get_clients(room)
                           ELSE w.out = <<>>

\* a GameData that arrived on the unreliable channel has just been forwarded,
\* on that channel, to another member of the sender's room, under the
\* sender's peer ID
C12_Witness ==
    /\ Len(outbox) = 1
    /\ outbox[1].packet.op = "GameData"
    /\ outbox[1].channel = "Unreliable"
    /\ outbox[1].written
    /\ outbox[1].to \in DOMAIN clients
    /\ clients[outbox[1].to].state = "InRoom"
    /\ LET room == RoomAt(apps, <<clients[outbox[1].to].app_id, clients[outbox[1].to].room_id>>)
       IN  /\ outbox[1].packet.from_peer \in DOMAIN room.godot_to_client
           /\ room.godot_to_client[outbox[1].packet.from_peer] # outbox[1].to

\* C13: whatever CreateRoom the packet about to be handled carries, when its
\* sender is Authenticated: handling it adds exactly one Room, in the sender's
\* App, with the sender as host and only member under peer ID 1 and with a
\* join code that no live Room had, makes the sender InRoom of that Room, sends
\* the sender ConnectedToRoom(that join code, 1) and nothing else, and leaves
\* every other client and every other Room as it was.
C13_CreateRoom ==
    (/\ events # <<>>
     /\ Head(events).type = "PacketReceived"
     /\ Head(events).client_id \in DOMAIN clients
     /\ clients[Head(events).client_id].state = "Authenticated") =>
        LET s == Head(events).client_id
            a == clients[s].app_id
        IN  \A data \in {d \in Datas(Head(events)) : d.op = "CreateRoom"} :
                \A nd \in Draws(Head(events), data) :
                    LET w == handle_event(World, config, Head(events), data, nd)
                        new == LiveRooms(w.apps) \ LiveRooms(apps)
                    IN  /\ Cardinality(new) = 1
                        /\ LiveRooms(apps) \subseteq LiveRooms(w.apps)
                        /\ \A k \in LiveRooms(apps) : RoomAt(w.apps, k) = RoomAt(apps, k)
                        /\ DOMAIN w.clients = DOMAIN clients
                        /\ \A c \in (DOMAIN clients) \ {s} : w.clients[c] = clients[c]
                        /\ \A k \in new :
                            LET room == RoomAt(w.apps, k)
                            IN  /\ k[1] = a
                                /\ room.host_id = s
                                /\ room.client_to_godot = MapInsert(EmptyMap, s, 1)
                                /\ room.godot_to_client = MapInsert(EmptyMap, 1, s)
                                /\ room.is_public = data.is_public
                                /\ room.metadata = data.metadata
                                /\ \A j \in LiveRooms(apps) : RoomAt(apps, j).join_code # room.join_code
                                /\ w.clients[s] = InRoom(a, k[2])
                                /\ Len(w.out) = 1
                                /\ w.out[1].to = s
                                /\ w.out[1].packet = ConnectedToRoom(room.join_code, 1)

\* C14: when the event about to be handled is ClientDisconnected for a client
\* that is InRoom and a member but not the host of its room, handling it
\* removes the client from both peer maps of the room, sends every other
\* member PeerLeftRoom with the leaver's peer ID, and leaves the room live with
\* its join code, its host and the peer IDs of the other members as they were.
C14_PeerDisconnect ==
    \A c \in DOMAIN clients :
        (/\ events # <<>>
         /\ Head(events) = ClientDisconnected(c)
         /\ clients[c].state = "InRoom"
         /\ <<clients[c].app_id, clients[c].room_id>> \in LiveRooms(apps)
         /\ c \in Room_get_clients(RoomAt(apps, <<clients[c].app_id, clients[c].room_id>>))
         /\ RoomAt(apps, <<clients[c].app_id, clients[c].room_id>>).host_id # c) =>
            LET k == <<clients[c].app_id, clients[c].room_id>>
                room == RoomAt(apps, k)
                others == Room_get_clients(room) \ {c}
            IN  \A nd \in Draws(Head(events), InvalidPacket) :
                    LET w == handle_event(World, config, Head(events), InvalidPacket, nd)
                    IN  /\ k \in LiveRooms(w.apps)
                        /\ c \notin DOMAIN RoomAt(w.apps, k).client_to_godot
                        /\ c \notin MapValues(RoomAt(w.apps, k).godot_to_client)
                        /\ Len(w.out) = Cardinality(others)
                        /\ \A m \in others :
                              \E i \in DOMAIN w.out :
                                  /\ w.out[i].to = m
                                  /\ w.out[i].packet = PeerLeftRoom(room.client_to_godot[c])
                        /\ RoomAt(w.apps, k).join_code = room.join_code
                        /\ RoomAt(w.apps, k).host_id = room.host_id
                        /\ \A m \in others :
                              /\ m \in DOMAIN RoomAt(w.apps, k).client_to_godot
                              /\ RoomAt(w.apps, k).client_to_godot[m] = room.client_to_godot[m]
                        /\ \A p \in DOMAIN room.godot_to_client :
                              room.godot_to_client[p] # c =>
                                  /\ p \in DOMAIN RoomAt(w.apps, k).godot_to_client
                                  /\ RoomAt(w.apps, k).godot_to_client[p] = room.godot_to_client[p]

\* the handling rejected the Authenticate at the version gate
VersionRejected(out) ==
    \E i \in DOMAIN out :
        /\ out[i].packet.op = "Error"
        /\ out[i].packet.error_message[1] = "Version "

\* C15: whatever Authenticate the packet about to be handled carries, when its
\* sender is Connected: the version gate rejects it only if allowed_versions
\* is non-empty and lacks its version, and with allowed_versions empty an
\* Authenticate whose token is admitted makes the sender Authenticated.
C15_EmptyVersionListAcceptsAny ==
    (/\ events # <<>>
     /\ Head(events).type = "PacketReceived"
     /\ Head(events).client_id \in DOMAIN clients
     /\ clients[Head(events).client_id].state = "Connected") =>
        \A data \in {d \in Datas(Head(events)) : d.op = "Authenticate"} :
            \A nd \in Draws(Head(events), data) :
                LET w == handle_event(World, config, Head(events), data, nd)
                IN  /\ VersionRejected(w.out) =>
                          /\ config.allowed_versions # {}
                          /\ data.version \notin config.allowed_versions
                    /\ (config.allowed_versions = {} /\ is_app_allowed(config, data.app_id, nd.remote)) =>
                          w.clients[Head(events).client_id].state = "Authenticated"

\* C16: whatever Authenticate the packet about to be handled carries, when its
\* sender is Connected and the non-empty allowed_versions lacks its version:
\* handling it sends the sender Error(401, "Version <v> is not allowed") and
\* then ForceDisconnect, both on the reliable channel, removes the sender's
\* session, leaves the sender Connected and creates no App.
C16_VersionDenied ==
    (/\ events # <<>>
     /\ Head(events).type = "PacketReceived"
     /\ Head(events).client_id \in DOMAIN clients
     /\ clients[Head(events).client_id].state = "Connected"
     /\ config.allowed_versions # {}) =>
        LET s == Head(events).client_id
        IN  \A data \in {d \in Datas(Head(events)) :
                            d.op = "Authenticate" /\ d.version \notin config.allowed_versions} :
                \A nd \in Draws(Head(events), data) :
                    LET w == handle_event(World, config, Head(events), data, nd)
                    IN  /\ Len(w.out) = 2
                        /\ w.out[1].to = s
                        /\ w.out[1].packet = Error(401, <<"Version ", data.version, " is not allowed">>)
                        /\ w.out[1].channel = "Reliable"
                        /\ w.out[2].to = s
                        /\ w.out[2].packet = ForceDisconnect
                        /\ w.out[2].channel = "Reliable"
                        /\ s \notin DOMAIN w.cm.id_to_session
                        /\ s \notin MapValues(w.cm.addr_to_id)
                        /\ w.clients = clients
                        /\ w.apps = apps

\* C17: whatever Authenticate the packet about to be handled carries, when its
\* sender is Connected, its version passes and app admission denies its token:
\* handling it sends the sender Error(401) and then ForceDisconnect, does not
\* make the sender Authenticated and creates no App.
C17_TokenDenied ==
    (/\ events # <<>>
     /\ Head(events).type = "PacketReceived"
     /\ Head(events).client_id \in DOMAIN clients
     /\ clients[Head(events).client_id].state = "Connected") =>
        LET s == Head(events).client_id
        IN  \A data \in {d \in Datas(Head(events)) :
                            d.op = "Authenticate" /\ is_version_allowed(config, d.version)} :
                \A nd \in Draws(Head(events), data) :
                    ~is_app_allowed(config, data.app_id, nd.remote) =>
                        LET w == handle_event(World, config, Head(events), data, nd)
                        IN  /\ Len(w.out) = 2
                            /\ w.out[1].to = s
                            /\ w.out[1].packet.op = "Error"
                            /\ w.out[1].packet.error_code = 401
                            /\ w.out[2].to = s
                            /\ w.out[2].packet = ForceDisconnect
                            /\ w.clients[s].state # "Authenticated"
                            /\ w.apps = apps

\* the Apps bind every token to one App of that token, and no two tokens to
\* the same App
TokensBound(a) ==
    /\ \A t \in DOMAIN a.token_to_id :
          /\ a.token_to_id[t] \in DOMAIN a.by_id
          /\ a.by_id[a.token_to_id[t]].token = t
    /\ \A t1, t2 \in DOMAIN a.token_to_id :
          t1 # t2 => a.token_to_id[t1] # a.token_to_id[t2]

\* what handling an admitted Authenticate of the Connected client at the head
\* of the batch does
AdmittedAuthenticate ==
    (/\ events # <<>>
     /\ Head(events).type = "PacketReceived"
     /\ Head(events).client_id \in DOMAIN clients
     /\ clients[Head(events).client_id].state = "Connected") =>
        LET s == Head(events).client_id
        IN  \A data \in {d \in Datas(Head(events)) :
                            d.op = "Authenticate" /\ is_version_allowed(config, d.version)} :
                \A nd \in Draws(Head(events), data) :
                    is_app_allowed(config, data.app_id, nd.remote) =>
                        LET w == handle_event(World, config, Head(events), data, nd)
                        IN  /\ data.app_id \in DOMAIN w.apps.token_to_id
                            /\ w.clients[s] = Authenticated(w.apps.token_to_id[data.app_id])
                            /\ \A c \in (DOMAIN clients) \ {s} : w.clients[c] = clients[c]
                            /\ TokensBound(w.apps)
                            /\ IF data.app_id \in DOMAIN apps.token_to_id
                               THEN w.apps = apps
                               ELSE /\ DOMAIN w.apps.token_to_id = (DOMAIN apps.token_to_id) \cup {data.app_id}
                                    /\ Cardinality(DOMAIN w.apps.by_id) = Cardinality(DOMAIN apps.by_id) + 1
                                    /\ \A t \in DOMAIN apps.token_to_id :
                                          w.apps.token_to_id[t] = apps.token_to_id[t]
                            /\ Len(w.out) = 1
                            /\ w.out[1].to = s
                            /\ w.out[1].packet = ClientAuthenticated
                            /\ w.out[1].channel = "Reliable"

\* C18: handling an admitted Authenticate(token, version) of a Connected
\* client makes the client Authenticated of the App bound to the token,
\* creating the App only when the token is bound to none, and sends the client
\* ClientAuthenticated; at every moment every bound token is bound to one App
\* of its own, and no step changes the App a token is bound to.
C18_TokenBinding ==
    /\ [](TokensBound(apps) /\ AdmittedAuthenticate)
    /\ [][\A t \in DOMAIN apps.token_to_id :
              /\ t \in DOMAIN apps'.token_to_id
              /\ apps'.token_to_id[t] = apps.token_to_id[t]]_vars

\* an Authenticate has just been admitted for a token that another client
\* had presented before: both clients are of the one App there is
C18_Witness ==
    /\ Len(outbox) = 1
    /\ outbox[1].packet = ClientAuthenticated
    /\ outbox[1].to \in DOMAIN clients
    /\ clients[outbox[1].to].state = "Authenticated"
    /\ apps.next_id = 1
    /\ \E c \in (DOMAIN clients) \ {outbox[1].to} :
          /\ clients[c].state \in {"Authenticated", "InRoom"}
          /\ clients[c].app_id = clients[outbox[1].to].app_id

\* C19: when the packet about to be handled is a ReqRooms of an Authenticated
\* client of App A, handling it leaves clients, apps and sessions as they are
\* and sends the client one packet, the GetRooms of the join code and metadata
\* of exactly the live rooms of A that are public.
C19_GetRoomsListsPublicRoomsOfApp ==
    (/\ events # <<>>
     /\ Head(events).type = "PacketReceived"
     /\ Head(events).client_id \in DOMAIN clients
     /\ clients[Head(events).client_id].state = "Authenticated") =>
        LET s == Head(events).client_id
            listed == {k \in LiveRooms(apps) : k[1] = clients[s].app_id /\ RoomAt(apps, k).is_public}
        IN  \A nd \in Draws(Head(events), ReqRooms) :
                LET w == handle_event(World, config, Head(events), ReqRooms, nd)
                IN  /\ w.clients = clients
                    /\ w.apps = apps
                    /\ w.cm = connection_manager
                    /\ Len(w.out) = 1
                    /\ w.out[1].to = s
                    /\ w.out[1].channel = "Reliable"
                    /\ w.out[1].packet =
                          GetRooms({[join_code |-> RoomAt(apps, k).join_code,
                                     metadata |-> RoomAt(apps, k).metadata] : k \in listed})

\* a ReqRooms has just been answered with a room whose metadata its host had
\* updated
C19_Witness ==
    /\ Len(outbox) = 1
    /\ outbox[1].packet.op = "GetRooms"
    /\ outbox[1].written
    /\ outbox[1].to \in DOMAIN clients
    /\ clients[outbox[1].to].state = "Authenticated"
    /\ \E info \in outbox[1].packet.rooms :
          /\ info.metadata = "m2"
          /\ \E k \in LiveRooms(apps) :
                /\ k[1] = clients[outbox[1].to].app_id
                /\ RoomAt(apps, k).join_code = info.join_code

\* C20: while the answer of the remote whitelist to one client's Authenticate
\* is awaited, the loop of run goes on: a datagram of a client that has a
\* session can be received, and the cleanup tick can remove the sessions that
\* have timed out.
C20_LoopNotBlocked ==
    (remote_check # <<>> /\ DOMAIN connection_manager.id_to_session # {}) =>
        /\ ENABLED RecvDatagram
        /\ ENABLED CleanupTick

\* C22: a client that falls silent is reported by cleanup_sessions, once, and
\* then handled as ClientDisconnected.  Every client of the directory has the
\* session cleanup_sessions reports once it has been silent for the timeout,
\* or its ClientDisconnected is already queued; the cleanup tick removes each
\* session it reports from both maps and queues one ClientDisconnected for it;
\* handling that event removes the client from the directory.
C22_SilentClientReported ==
    /\ [](\A c \in DOMAIN clients :
            \/ c \in DOMAIN connection_manager.id_to_session
            \/ \E i \in DOMAIN events : events[i] = ClientDisconnected(c))
    /\ [][CleanupTick =>
            \A id \in (DOMAIN connection_manager.id_to_session)
                          \ DOMAIN connection_manager'.id_to_session :
                /\ Cardinality({i \in DOMAIN events' : events'[i] = ClientDisconnected(id)}) = 1
                /\ id \notin MapValues(connection_manager'.addr_to_id)]_vars
    /\ [][(events # <<>> /\ Head(events).type = "ClientDisconnected" /\ events' = Tail(events))
            => Head(events).client_id \notin DOMAIN clients']_vars

\* C25: whatever allowed JoinRes the packet about to be handled carries, when
\* it comes from a client that is InRoom of a live room, every ConnectedToRoom
\* that handling it sends carries the join code of that room: the reference
\* the host got at CreateRoom and the joiner used in its ReqJoin.
C25_ConnectedToRoomCarriesJoinCode ==
    (/\ events # <<>>
     /\ Head(events).type = "PacketReceived"
     /\ Head(events).client_id \in DOMAIN clients
     /\ clients[Head(events).client_id].state = "InRoom"
     /\ <<clients[Head(events).client_id].app_id, clients[Head(events).client_id].room_id>>
            \in LiveRooms(apps)) =>
        LET h == Head(events).client_id
            k == <<clients[h].app_id, clients[h].room_id>>
        IN  \A data \in {d \in Datas(Head(events)) : d.op = "JoinRes" /\ d.allowed} :
                \A nd \in Draws(Head(events), data) :
                    LET w == handle_event(World, config, Head(events), data, nd)
                    IN  \A i \in DOMAIN w.out :
                            w.out[i].packet.op = "ConnectedToRoom" =>
                                w.out[i].packet.room_id = RoomAt(apps, k).join_code

\* C26: within one Room, add_peer hands out the peer IDs 1, 2, 3, ... in
\* increasing order.  In every live room next_godot_id is at least 1, the IDs
\* handed out so far are exactly those below it, every ID in the maps is one
\* of them, and two different members never hold the same ID; from one state
\* to the next next_godot_id never decreases, and an ID a member newly holds
\* is the room's next_godot_id and was never handed out before, also after a
\* member left.
C26_PeerIdsIncrease ==
    /\ [](\A k \in LiveRooms(apps) :
            LET room == RoomAt(apps, k)
            IN  /\ room.next_godot_id >= 1
                /\ peer_ids_used[k] = 1..(room.next_godot_id - 1)
                /\ (DOMAIN room.godot_to_client) \cup MapValues(room.client_to_godot)
                       \subseteq 1..(room.next_godot_id - 1)
                /\ \A c1, c2 \in DOMAIN room.client_to_godot :
                       c1 # c2 => room.client_to_godot[c1] # room.client_to_godot[c2])
    /\ [][\A k \in LiveRooms(apps) \cap LiveRooms(apps') :
            LET room == RoomAt(apps, k)
                room2 == RoomAt(apps', k)
            IN  /\ room2.next_godot_id >= room.next_godot_id
                /\ \A c \in DOMAIN room2.client_to_godot :
                       (c \notin DOMAIN room.client_to_godot
                          \/ room2.client_to_godot[c] # room.client_to_godot[c]) =>
                           /\ room2.client_to_godot[c] = room.next_godot_id
                           /\ room2.client_to_godot[c] \notin peer_ids_used[k]]_vars

\* a room has handed out the IDs 1, 2 and 3: the member that held 2 has left,
\* and the add_peer after that handed out 3
C26_Witness ==
    \E k \in LiveRooms(apps) :
        /\ RoomAt(apps, k).next_godot_id = 4
        /\ 2 \notin DOMAIN RoomAt(apps, k).godot_to_client
        /\ 3 \in DOMAIN RoomAt(apps, k).godot_to_client

\* C27: get_or_create creates a session exactly for an address that has no
\* live session, under the next value of a counter that starts at 1 and only
\* increases.  In every state the counter is at least 1 and above every live
\* ClientId, and the two session maps agree (each address resolves to one live
\* session, each live session to its address); from one state to the next the
\* counter never decreases, a new session has the old counter value as its
\* ClientId (so no ClientId is assigned twice, whatever the address), a
\* ClientConnected is pushed exactly when the counter advances and names that
\* ClientId, and an address whose session stays live resolves to the same
\* ClientId.
C27_ClientIdsFresh ==
    /\ [](LET cm == connection_manager
          IN  /\ cm.next_client_id >= 1
              /\ DOMAIN cm.id_to_session \subseteq 1..(cm.next_client_id - 1)
              /\ \A a \in DOMAIN cm.addr_to_id :
                     /\ cm.addr_to_id[a] \in DOMAIN cm.id_to_session
                     /\ cm.id_to_session[cm.addr_to_id[a]].addr = a
              /\ \A id \in DOMAIN cm.id_to_session :
                     /\ cm.id_to_session[id].addr \in DOMAIN cm.addr_to_id
                     /\ cm.addr_to_id[cm.id_to_session[id].addr] = id)
    /\ [][LET cm == connection_manager
              cm2 == connection_manager'
              pushed == {pending_events'[i] : i \in (DOMAIN pending_events') \ DOMAIN pending_events}
          IN  /\ cm2.next_client_id >= cm.next_client_id
              /\ \A id \in (DOMAIN cm2.id_to_session) \ DOMAIN cm.id_to_session :
                     id = cm.next_client_id /\ cm2.next_client_id = id + 1
              /\ \A a \in (DOMAIN cm2.addr_to_id) \cap DOMAIN cm.addr_to_id :
                     cm2.addr_to_id[a] = cm.addr_to_id[a]
              /\ \A a \in (DOMAIN cm2.addr_to_id) \ DOMAIN cm.addr_to_id :
                     cm2.addr_to_id[a] = cm.next_client_id
              /\ cm2.next_client_id # cm.next_client_id <=>
                     ClientConnected(cm.next_client_id) \in pushed
              /\ \A e \in pushed : e.type = "ClientConnected" => e.client_id = cm.next_client_id]_vars

\* ClientIds 1 and 2 have been assigned: the session of 1 has been removed,
\* the session of 2 is live and its ClientConnected is waiting
C27_Witness ==
    /\ connection_manager.next_client_id = 3
    /\ DOMAIN connection_manager.id_to_session = {2}
    /\ \E i \in DOMAIN pending_events : pending_events[i] = ClientConnected(2)

\* C29: when recv_events gets a datagram the decoder of the session cannot
\* interpret (DecodeResult::None), the session of the sender is removed and a
\* ClientDisconnected for its ClientId is emitted: every session that a
\* datagram removes, the one it has just created included, has its
\* ClientDisconnected in pending_events afterwards.
C29_UndecodableDatagramDisconnects ==
    [][RecvDatagram =>
          \A id \in ((DOMAIN connection_manager.id_to_session)
                        \cup (connection_manager.next_client_id
                                  .. (connection_manager'.next_client_id - 1)))
                    \ DOMAIN connection_manager'.id_to_session :
              \E i \in DOMAIN pending_events' : pending_events'[i] = ClientDisconnected(id)]_vars

\* C33: only the host of a room admits a joiner: whatever JoinRes(target,
\* allowed = true) the packet about to be handled carries, when its sender is
\* InRoom in a live room and is not that room's host, handling it leaves every
\* room's peers and every client's state as they are
C33_OnlyHostAdmits ==
    (/\ events # <<>>
     /\ Head(events).type = "PacketReceived"
     /\ Head(events).client_id \in DOMAIN clients
     /\ clients[Head(events).client_id].state = "InRoom"
     /\ <<clients[Head(events).client_id].app_id, clients[Head(events).client_id].room_id>>
            \in LiveRooms(apps)) =>
        LET s == Head(events).client_id
            k == <<clients[s].app_id, clients[s].room_id>>
        IN  RoomAt(apps, k).host_id # s =>
            \A data \in {d \in Datas(Head(events)) : d.op = "JoinRes" /\ d.allowed} :
                \A nd \in Draws(Head(events), data) :
                    LET w == handle_event(World, config, Head(events), data, nd)
                    IN  /\ w.clients = clients
                        /\ LiveRooms(w.apps) = LiveRooms(apps)
                        /\ \A j \in LiveRooms(apps) :
                              /\ RoomAt(w.apps, j).client_to_godot = RoomAt(apps, j).client_to_godot
                              /\ RoomAt(w.apps, j).godot_to_client = RoomAt(apps, j).godot_to_client

\* C34: whatever JoinRes the packet about to be handled carries, a client that
\* handling it moves to InRoom{app, room} was Authenticated with that app
\* before: not Connected, and not InRoom already
C34_InRoomOnlyFromAuthenticated ==
    (/\ events # <<>>
     /\ Head(events).type = "PacketReceived") =>
        \A data \in {d \in Datas(Head(events)) : d.op = "JoinRes"} :
            \A nd \in Draws(Head(events), data) :
                LET w == handle_event(World, config, Head(events), data, nd)
                IN  \A t \in DOMAIN w.clients :
                        (/\ w.clients[t].state = "InRoom"
                         /\ t \in DOMAIN clients => w.clients[t] # clients[t]) =>
                            /\ t \in DOMAIN clients
                            /\ clients[t].state = "Authenticated"
                            /\ clients[t].app_id = w.clients[t].app_id

\* C35: every ClientId in the client directory has a session in the session
\* manager, and handling an event never takes the session of a client away
\* while leaving the client in the directory
C35_DirectoryHasSessions ==
    /\ \A c \in DOMAIN clients : c \in DOMAIN connection_manager.id_to_session
    /\ events # <<>> =>
          \A data \in Datas(Head(events)) :
              \A nd \in Draws(Head(events), data) :
                  LET w == handle_event(World, config, Head(events), data, nd)
                  IN  \A c \in DOMAIN w.clients :
                          c \in DOMAIN connection_manager.id_to_session
                              => c \in DOMAIN w.cm.id_to_session

\* C36: the ids that are keys of id_to_session are the ids that are values of
\* addr_to_id, no two addresses map to one id, and the addr of every stored
\* session maps back to the session's id, which is its key; so the session
\* get_or_create looks up for a known address is there
C36_SessionMapsAgree ==
    LET cm == connection_manager
    IN  /\ DOMAIN cm.id_to_session = MapValues(cm.addr_to_id)
        /\ \A a, b \in DOMAIN cm.addr_to_id : cm.addr_to_id[a] = cm.addr_to_id[b] => a = b
        /\ \A id \in DOMAIN cm.id_to_session :
               /\ cm.id_to_session[id].id = id
               /\ cm.id_to_session[id].addr \in DOMAIN cm.addr_to_id
               /\ cm.addr_to_id[cm.id_to_session[id].addr] = id
        /\ \A addr \in Addrs :
               addr \in DOMAIN cm.addr_to_id => cm.addr_to_id[addr] \in DOMAIN cm.id_to_session

\* address a1 lost its first session and was given a second one
C36_Witness ==
    /\ DOMAIN connection_manager.addr_to_id = {"a1"}
    /\ connection_manager.addr_to_id["a1"] = 2
    /\ DOMAIN connection_manager.id_to_session = {2}

\* C37: in the Rooms of every App the generator's live set, the keys of
\* jc_to_id and the join codes of the rooms in by_id are the same set, no two
\* rooms share a code and jc_to_id leads to the room with that code; the codes
\* that become live in a step are the codes of the rooms created in it and
\* were not live before, and the codes released are the codes of the rooms
\* removed in it
C37_JoinCodesLive ==
    /\ [](\A a \in DOMAIN apps.by_id :
            LET rooms == apps.by_id[a].rooms
            IN  /\ rooms.join_codes = DOMAIN rooms.jc_to_id
                /\ rooms.join_codes = {rooms.by_id[r].join_code : r \in DOMAIN rooms.by_id}
                /\ \A r1, r2 \in DOMAIN rooms.by_id :
                       rooms.by_id[r1].join_code = rooms.by_id[r2].join_code => r1 = r2
                /\ \A jc \in DOMAIN rooms.jc_to_id :
                       /\ rooms.jc_to_id[jc] \in DOMAIN rooms.by_id
                       /\ rooms.by_id[rooms.jc_to_id[jc]].join_code = jc)
    /\ [][\A a \in (DOMAIN apps.by_id) \cap DOMAIN apps'.by_id :
            LET old == apps.by_id[a].rooms
                new == apps'.by_id[a].rooms
                created == {new.by_id[r].join_code : r \in (DOMAIN new.by_id) \ DOMAIN old.by_id}
                removed == {old.by_id[r].join_code : r \in (DOMAIN old.by_id) \ DOMAIN new.by_id}
            IN  /\ created \cap old.join_codes = {}
                /\ new.join_codes \ old.join_codes = created
                /\ old.join_codes \ new.join_codes = removed]_vars

\* an App whose first room was removed and whose second room is live, its
\* code live in the generator
C37_Witness ==
    \E a \in DOMAIN apps.by_id :
        /\ apps.by_id[a].rooms.next_id = 2
        /\ DOMAIN apps.by_id[a].rooms.by_id = {1}
        /\ apps.by_id[a].rooms.join_codes = {apps.by_id[a].rooms.by_id[1].join_code}

(***************************************************************************)
(* Reliable delivery.                                                      *)
(***************************************************************************)
IsPrefix(p, q) == Len(p) <= Len(q) /\ p = SubSeq(q, 1, Len(p))

\* C1: the payloads the receiver has released are at every moment a prefix of
\* the payloads passed to send: none twice, none out of order, none ahead of
\* a gap.
C1_ReleasedIsPrefixOfSent == IsPrefix(released, sent_log)

\* a payload is buffered ahead of a gap, after an earlier one was released
C1_Witness ==
    /\ released # <<>>
    /\ reliable_receiver.received_packets # EmptyMap
    /\ Len(released) < Len(sent_log)

C21_ShortDatagramIgnored ==
    [][(RecvShortData \/ RecvShortAck) =>
          UNCHANGED <<recv_task, released, reliable_receiver, reliable_sender>>]_vars

\* the events in the order RelayServer::run will handle them: those it took
\* from recv_events or cleanup_sessions, then those recv_events still holds
HandlingOrder == events \o pending_events

\* the reliable PacketReceived events of client c in q
ReliablePackets(q, c) ==
    SelectSeq(q, LAMBDA e : e.type = "PacketReceived" /\ e.client_id = c
                            /\ e.channel = "Reliable")

\* C23: per ClientId the events reach the handler in transport order:
\* ClientConnected before any PacketReceived of the ID, no PacketReceived of
\* the ID after its ClientDisconnected, and the reliable PacketReceived events
\* of the ID in the order recv_events produced them (their queue only loses
\* its head or gains a tail).
C23_EventOrder ==
    /\ [](\A i, j \in DOMAIN HandlingOrder :
            (i < j /\ HandlingOrder[i].client_id = HandlingOrder[j].client_id) =>
                /\ ~(HandlingOrder[i].type = "PacketReceived"
                     /\ HandlingOrder[j].type = "ClientConnected")
                /\ ~(HandlingOrder[i].type = "ClientDisconnected"
                     /\ HandlingOrder[j].type = "PacketReceived"))
    /\ [][\A c \in ClientIds :
            LET before == ReliablePackets(HandlingOrder, c)
                after == ReliablePackets(HandlingOrder', c)
            IN  \/ IsPrefix(before, after)
                \/ before # <<>> /\ after = Tail(before)]_vars

\* C24: with the timers firing forever and a fair lossy network, once no more
\* payloads are passed to send, sent_packets becomes empty and stays empty:
\* every frame is acknowledged in the end, a duplicate being acknowledged
\* again.
C24_EventuallyAllAcked == <>[](reliable_sender.sent_packets = EmptyMap)

\* everything sent is acknowledged, and the acknowledgement of a duplicate is
\* waiting to be sent again
C24_Witness ==
    /\ Len(sent_log) = MaxSendsFair
    /\ reliable_sender.sent_packets = EmptyMap
    /\ pending_acks # <<>>

\* C28: for every packet m, from_bytes of the bytes to_bytes(m) returned
\* succeeds and returns m: all 15 opcodes, with empty strings, an empty room
\* list and a GameData without payload among them.
C28_RoundTrip == recv_msg # <<>> => recv_msg[1] = DecodeOk(sent_msg[1])

\* a GetRooms with an empty room list has been encoded and decoded
C28_Witness ==
    /\ recv_msg # <<>>
    /\ sent_msg[1] = GetRooms(<<>>)
    /\ Len(wire_bytes) = 5

\* C30: whatever frame in flight the receiver gets next, if its sequence
\* number is not expected_next and is newer than it under the modular
\* comparison, also when it has wrapped past the largest sequence number
\* while expected_next has not, receive buffers its payload under that
\* sequence number instead of discarding it as a duplicate.
C30_NewerFrameBuffered ==
    \A f \in data_frames :
        (/\ f.seq # reliable_receiver.expected_next
         /\ SequenceNumber_is_newer_than(f.seq, reliable_receiver.expected_next)) =>
            LET r == ReliableReceiver_receive(reliable_receiver, f.seq, f.data)
            IN  /\ f.seq \in DOMAIN r.receiver.received_packets
                /\ r.receiver.received_packets[f.seq] = f.data

\* C31: a data frame handed to ReliableReceiver::receive is acknowledged
\* exactly once: for every datagram the receiver may be given next, the
\* sequence numbers receive returns to be ACKed are the datagram's own number
\* and nothing else, so that over a run as many ACKs are queued for s as
\* frames carrying s were received
C31_AckedExactlyOnce ==
    \A f \in data_frames :
        ReliableReceiver_receive(reliable_receiver, f.seq, f.data).acks = <<f.seq>>

\* C32: a.is_newer_than(b) is true exactly when (a - b) mod 2^32 < 2^31, that
\* is when a >= b and a - b < 2^31 or a < b and b - a > 2^31; for a # b the
\* two numbers are never each newer than the other; 0xFFFFFFFF is not newer
\* than 0 and 0 is newer than 0xFFFFFFFF.  The comparison the transport model
\* uses, which wraps at SeqModulus, has the last two properties too.
C32_NewerThan ==
    /\ newer # <<>> =>
          LET dh == seq_a.hi - seq_b.hi
              dl == seq_a.lo - seq_b.lo
              a_ge_b == dh > 0 \/ (dh = 0 /\ dl >= 0)
          IN  /\ newer[1] = IF a_ge_b
                            THEN dh < 32768 \/ (dh = 32768 /\ dl < 0)
                            ELSE (-dh) > 32768 \/ ((-dh) = 32768 /\ (-dl) > 0)
              /\ seq_a # seq_b => ~(newer[1] /\ newer[2])
              /\ (seq_a = [hi |-> 65535, lo |-> 65535] /\ seq_b = [hi |-> 0, lo |-> 0])
                    => newer = <<FALSE, TRUE>>
    /\ \A a, b \in 0..(SeqModulus - 1) :
          a # b => ~(SequenceNumber_is_newer_than(a, b) /\ SequenceNumber_is_newer_than(b, a))
    /\ ~SequenceNumber_is_newer_than(SeqModulus - 1, 0)
    /\ SequenceNumber_is_newer_than(0, SeqModulus - 1)

\* 0xFFFFFFFF and 0 have been compared
C32_Witness ==
    /\ newer # <<>>
    /\ seq_a = [hi |-> 65535, lo |-> 65535]
    /\ seq_b = [hi |-> 0, lo |-> 0]

\* C38: from_bytes returns an error, never a packet, for a frame in which a
\* string or vector length prefix is negative or exceeds the bytes after it
C38_BadLengthRejected == recv_msg # <<>> => ~recv_msg[1].ok

\* C39: the used set of room_ids is the set of the generated codes of the
\* live rooms, a room's code being its id without the relay_id in front
C39_UsedIsLive ==
    room_ids = {DropBytes(id, Len(relay_id)) :
                   id \in UNION {DOMAIN rs_apps[a] : a \in DOMAIN rs_apps}}

\* C40: the App named by every session of the GameServer exists, and the
\* task of run has not been aborted by a lookup that expected an App
C40_AppOfSessionExists ==
    /\ gs_task = "running"
    /\ \A c \in DOMAIN gs_sessions : gs_sessions[c] \in DOMAIN gs_apps

====
